---- MODULE Spec2Model ----
(***************************************************************************)
(* AgentHub: the OAuth token lifecycle manager (lib/agent/oauth.ts), the   *)
(* OAuth callback route, and the MCP tool resolution and cache layer of    *)
(* the agent graph.                                                        *)
(*                                                                         *)
(* Strings whose characters matter (identifiers, user ids, the OAuth state *)
(* parameter, cache keys) are sequences of one-character strings.  A JS    *)
(* value that may be null/undefined is a sequence of length 0 or 1         *)
(* (None / Some(x)); a number or string used only for its truthiness uses  *)
(* 0 for the falsy value.                                                  *)
(***************************************************************************)
EXTENDS Integers, Sequences, FiniteSets, TLC

None == <<>>
Some(x) == <<x>>

\* ----------------------------------------------------------------- strings
RECURSIVE SplitFrom(_, _, _, _)
SplitFrom(s, sep, i, cur) ==
  IF i > Len(s) THEN <<cur>>
  ELSE IF s[i] = sep THEN <<cur>> \o SplitFrom(s, sep, i + 1, <<>>)
  ELSE SplitFrom(s, sep, i + 1, Append(cur, s[i]))

\* String.prototype.split(sep) for a one-character separator: every piece
split(s, sep) == SplitFrom(s, sep, 1, <<>>)

\* URLSearchParams serialisation of one character (form-urlencoded)
EncodeChar(c) ==
  CASE c = ":" -> <<"%", "3", "A">>
    [] c = "%" -> <<"%", "2", "5">>
    [] OTHER -> <<c>>

RECURSIVE EncodeFrom(_, _)
EncodeFrom(s, i) == IF i > Len(s) THEN <<>> ELSE EncodeChar(s[i]) \o EncodeFrom(s, i + 1)

\* URLSearchParams.toString() of a parameter value
Encode(s) == EncodeFrom(s, 1)

RECURSIVE DecodeFrom(_, _)
DecodeFrom(s, i) ==
  IF i > Len(s) THEN <<>>
  ELSE IF s[i] = "%" /\ i + 2 <= Len(s) /\ s[i + 1] = "3" /\ s[i + 2] = "A"
       THEN <<":">> \o DecodeFrom(s, i + 3)
  ELSE IF s[i] = "%" /\ i + 2 <= Len(s) /\ s[i + 1] = "2" /\ s[i + 2] = "5"
       THEN <<"%">> \o DecodeFrom(s, i + 3)
  ELSE <<s[i]>> \o DecodeFrom(s, i + 1)

\* url.searchParams.get(name): the percent-decoded value
Decode(s) == DecodeFrom(s, 1)

\* UTF-16 code unit of the characters the model uses
CharCode(c) ==
  CASE c = "%" -> 37 [] c = "," -> 44 [] c = "-" -> 45 [] c = ":" -> 58
    [] c = "a" -> 97 [] c = "b" -> 98 [] c = "c" -> 99 [] c = "g" -> 103
    [] c = "h" -> 104
    [] c = "m" -> 109 [] c = "u" -> 117 [] c = "v" -> 118 [] c = "x" -> 120

RECURSIVE StrLessFrom(_, _, _)
StrLessFrom(s, t, i) ==
  IF i > Len(t) THEN FALSE
  ELSE IF i > Len(s) THEN TRUE
  ELSE IF CharCode(s[i]) < CharCode(t[i]) THEN TRUE
  ELSE IF CharCode(s[i]) > CharCode(t[i]) THEN FALSE
  ELSE StrLessFrom(s, t, i + 1)

\* s < t as Array.prototype.sort() compares strings without a comparator
StrLess(s, t) == StrLessFrom(s, t, 1)

RECURSIVE InsertSorted(_, _)
InsertSorted(x, xs) ==
  IF xs = <<>> THEN <<x>>
  ELSE IF StrLess(x, Head(xs)) THEN <<x>> \o xs
  ELSE <<Head(xs)>> \o InsertSorted(x, Tail(xs))

RECURSIVE sort(_)
\* Array.prototype.sort() on an array of strings
sort(xs) == IF xs = <<>> THEN <<>> ELSE InsertSorted(Head(xs), sort(Tail(xs)))

RECURSIVE join(_, _)
\* Array.prototype.join(sep)
join(xs, sep) ==
  IF xs = <<>> THEN <<>>
  ELSE IF Len(xs) = 1 THEN xs[1]
  ELSE xs[1] \o sep \o join(Tail(xs), sep)

\* all strings over an alphabet of length lo..hi
StringsOver(alphabet, lo, hi) == UNION {[1..n -> alphabet] : n \in lo..hi}

\* ------------------------------------------------------------------ bounds
MaxTime == 3000
MaxIssued == 3
MaxStateLen == 3
MaxCalls == 3
MaxEnabled == 2
MaxRuns == 2

\* ------------------------------------------------------------- the actors
Procs == {"p1", "p2"}
Users == {<<"u">>, <<"v">>}

\* ------------------------------------------------------- provider registry
\* (scopes: the entry has a scopes array)
OAUTH_PROVIDERS ==
  [google |-> [name |-> "Google", scopes |-> TRUE],
   twitter |-> [name |-> "Twitter/X", scopes |-> TRUE],
   facebook |-> [name |-> "Facebook", scopes |-> TRUE]]

\* what an object literal inherits from Object.prototype: obj["constructor"]
\* is the function Object, whose name is "Object" and which has no scopes
ObjectPrototype == [constructor |-> [name |-> "Object", scopes |-> FALSE]]

toLowerCase(name) ==
  CASE name = "Google" -> "google"
    [] name = "Twitter/X" -> "twitter/x"
    [] name = "Facebook" -> "facebook"
    [] name = "Object" -> "object"

\* provider names a request may carry
ProviderInputs == {"google", "myspace", "constructor"}

\* the provider parameter of a request: a name, or missing
ProviderParams == ProviderInputs \cup {""}

\* OAuthManager(providerName).provider: an own entry, an inherited member, or undefined
ProviderLookup(providerName) ==
  IF providerName \in DOMAIN OAUTH_PROVIDERS THEN Some(OAUTH_PROVIDERS[providerName])
  ELSE IF providerName \in DOMAIN ObjectPrototype THEN Some(ObjectPrototype[providerName])
  ELSE None

\* new OAuthManager(providerName): throws when the lookup is falsy
OAuthManager(providerName) ==
  LET provider == ProviderLookup(providerName) IN
  IF provider # None
  THEN [threw |-> FALSE, provider |-> provider[1]]
  ELSE [threw |-> TRUE, provider |-> [name |-> "", scopes |-> FALSE]]

\* ------------------------------------------------------------- credentials
\* OAuthToken: refresh_token = 0 and expires_at = 0 stand for undefined
OAuthToken(at, rt, exp, tt) ==
  [access_token |-> at, refresh_token |-> rt, expires_at |-> exp, token_type |-> tt]

toISOString(ms) == Some(ms)
getTime(iso) == iso[1]

\* the row storeToken upserts
RowOf(userId, provider, token) ==
  [user_id |-> userId,
   provider |-> toLowerCase(provider.name),
   access_token |-> token.access_token,
   refresh_token |-> token.refresh_token,
   expires_at |-> IF token.expires_at # 0 THEN toISOString(token.expires_at) ELSE None,
   token_type |-> token.token_type]

\* the OAuthToken getToken builds from a row
TokenOfRow(data) ==
  OAuthToken(data.access_token, data.refresh_token,
             IF data.expires_at # None THEN getTime(data.expires_at) ELSE 0,
             data.token_type)

\* a plain insert: the conflicting row stays
Upsert_insert(table, row) == table \cup {row}

\* supabase upsert with onConflict "user_id,provider" under UNIQUE(user_id, provider)
Upsert(table, row) ==
  {r \in table : ~(r.user_id = row.user_id /\ r.provider = row.provider)} \cup {row}

\* supabase select ... eq(user_id) eq(provider)
SelectRows(table, userId, providerCol) ==
  {r \in table : r.user_id = userId /\ r.provider = providerCol}

\* the delete without its user filter
DeleteRows_anyUser(table, userId, providerCol) ==
  {r \in table : r.provider # providerCol}

\* supabase delete ... eq(user_id) eq(provider)
DeleteRows(table, userId, providerCol) ==
  {r \in table : ~(r.user_id = userId /\ r.provider = providerCol)}

\* the token endpoint's JSON answer to a grant: a fresh access token, a refresh
\* token or none, expires_in (seconds) or none
TokenData(n, withRefresh, expiresIn) ==
  [access_token |-> n, refresh_token |-> IF withRefresh THEN n ELSE 0, expires_in |-> expiresIn]

\* expires_in values the endpoint answers: none, or one second
ExpiresIns == {0, 1}

\* exchangeCodeForToken's result for a successful response
ExchangedToken(tokenData, t) ==
  OAuthToken(tokenData.access_token, tokenData.refresh_token,
             IF tokenData.expires_in # 0 THEN t + tokenData.expires_in * 1000 ELSE 0,
             "Bearer")

\* the refresh token taken from the response only
RefreshedToken_fromResponseOnly(tokenData, refreshToken, t) ==
  OAuthToken(tokenData.access_token,
             tokenData.refresh_token,
             IF tokenData.expires_in # 0 THEN t + tokenData.expires_in * 1000 ELSE 0,
             "Bearer")

\* refreshToken's result for a successful response
RefreshedToken(tokenData, refreshToken, t) ==
  OAuthToken(tokenData.access_token,
             IF tokenData.refresh_token # 0 THEN tokenData.refresh_token ELSE refreshToken,
             IF tokenData.expires_in # 0 THEN t + tokenData.expires_in * 1000 ELSE 0,
             "Bearer")

\* getToken line 209: expired and refreshable
ShouldRefresh(token, t) ==
  token.expires_at # 0 /\ token.expires_at < t /\ token.refresh_token # 0

\* ------------------------------------------------------ tool-server registry
Turns == {"t1", "t2"}
serverA == <<"a">>
gmail == <<"g">>
legacy == <<"h">>
doesNotExist == <<"x">>
\* the identifier "constructor": not a key of the registry, inherited by it
inheritedKey == <<"c">>
memory == <<"m">>

\* a header value: "OAUTH:<provider>", "Bearer <token>", or any other string
Header(scheme, provider, token) == [scheme |-> scheme, provider |-> provider, token |-> token]

\* MCP_SERVERS_CONFIG: a plain server, a server whose header needs the google
\* credential, a server whose header names a provider that is not registered
\* (headers: the values of the headers object in order, empty when it has none)
MCP_SERVERS_CONFIG ==
  (serverA :> [transport |-> "stdio", headers |-> <<>>]) @@
  (gmail :> [transport |-> "http",
             headers |-> <<Header("OAUTH:", "google", 0), Header("plain", "", 0)>>]) @@
  (legacy :> [transport |-> "http", headers |-> <<Header("OAUTH:", "myspace", 0)>>])

\* identifiers a turn's configuration may enable
ServerIds == {serverA, gmail, legacy, doesNotExist, inheritedKey, memory}

\* enabled_mcp_servers of the agents whose turns go through the cache
EnabledLists == StringsOver(ServerIds \ {inheritedKey}, 0, MaxEnabled)

\* lists a direct resolution is asked for
DirectLists == StringsOver(ServerIds, 0, MaxEnabled)

\* the tools each server lists
ServerTools ==
  (serverA :> <<"toolX", "toolY">>) @@ (gmail :> <<"send">>) @@ (legacy :> <<"old">>)

\* --------------------------------------------------------------- the state
VARIABLES
  oauth_tokens,   \* the oauth_tokens table: a set of rows
  now,            \* Date.now()
  issued,         \* number of tokens the provider has issued
  pc,             \* position of each request handler
  op,             \* the locals of each request handler
  calls,          \* number of requests received so far
  rt,             \* one authorization flow: URL issued, callback parsing its state
  toolCache,      \* the toolCache map: cache key -> resolved tools
  turn,           \* the agent node of each chat turn: position and locals
  attempts,       \* connection attempts made so far, per server
  runs,           \* number of agent-node runs started so far
  node,           \* the tool node that loads the user's servers: position and locals
  graph,          \* each run of the agent graph: current node, configuration, last answer
  toolNode,       \* toolNode.tools: the list installed on the shared tools node
  threads,        \* the platform's threads: id and metadata.user_id
  reply,          \* the thread endpoint's handlers: position, locals and answer
  stream          \* the response stream of each run request

oauthVars == <<oauth_tokens, now, issued, pc, op, calls>>
apiVars == <<threads, reply, stream>>
toolVarsButApi == <<toolCache, turn, attempts, runs, node, graph, toolNode>>
toolVars == <<toolCache, turn, attempts, runs, node, graph, toolNode, apiVars>>
vars == <<oauth_tokens, now, issued, pc, op, calls, rt, toolCache, turn, attempts, runs, node, graph, toolNode, apiVars>>

IdleOp ==
  [kind |-> "none", userId |-> <<>>, provider |-> "", token |-> None,
   refreshed |-> None, result |-> None, threw |-> FALSE, refreshCalled |-> FALSE,
   wrote |-> FALSE, sessionUser |-> None, exchanged |-> FALSE, redirect |-> "",
   status |-> 0, authUrl |-> <<>>]

NewOp(kind, userId, provider) ==
  [IdleOp EXCEPT !.kind = kind, !.userId = userId, !.provider = provider]

Free(p) == pc[p] \in {"idle", "done"} /\ calls < MaxCalls

IdleRt == [phase |-> "none", state |-> <<>>, userId |-> <<>>, authUrl |-> <<>>, recovered |-> <<>>]

IdleTurn ==
  [pc |-> "idle", entry |-> "", enabledServers |-> <<>>, userId |-> <<>>, cacheKey |-> <<>>,
   cacheHit |-> FALSE, mcpServers |-> <<>>, failed |-> {}, tools |-> <<>>, threw |-> FALSE]

\* ------------------------------------------- the user's servers (oauth.ts)
\* bound on the tools one server lists
MaxListed == 2

\* qualified names of servers a user may have registered, and names of tools
\* a server may list; both are arbitrary strings and may contain "__"
QualifiedNames == {<<"a">>, <<"a", "_", "_", "b">>, <<"c">>}
ToolNames == {<<"c">>, <<"b", "_", "_", "c">>}

\* agentConfig.enabled_mcp_servers
EnabledMcpServers == StringsOver(QualifiedNames, 0, MaxEnabled)

\* what client.listTools() may answer: serverTools.tools
Listings == StringsOver(ToolNames, 0, MaxListed)

IdleNode ==
  [pc |-> "idle", enabled_mcp_servers |-> <<>>, allServers |-> {}, i |-> 1, tools |-> <<>>,
   installed |-> <<>>, used |-> <<>>]

\* a run of the graph that has not started
IdleRun ==
  [at |-> "none", enabled_mcp_servers |-> <<>>, userId |-> <<>>, tools |-> <<>>,
   toolCalls |-> FALSE, executed |-> FALSE, used |-> <<>>, sender |-> <<>>, status |-> 0]

\* the threads on the platform: one of each user, one without an owner
Threads0 ==
  {[id |-> "th1", user_id |-> Some(<<"u">>)], [id |-> "th2", user_id |-> Some(<<"v">>)],
   [id |-> "th3", user_id |-> None]}
ThreadIds == {"th1", "th2", "th3"}

IdleReply ==
  [pc |-> "idle", kind |-> "none", user |-> None, threadId |-> "", status |-> 0,
   body |-> None]

IdleStream ==
  [pc |-> "none", received |-> 0, withContent |-> 0, written |-> <<>>, threw |-> FALSE,
   closes |-> 0, cancelled |-> FALSE]

InitApiVars ==
  /\ threads = Threads0
  /\ reply = [p \in Procs |-> IdleReply]
  /\ stream = [t \in Turns |-> IdleStream]

InitToolVars ==
  /\ InitApiVars
  /\ node = IdleNode
  /\ graph = [t \in Turns |-> IdleRun]
  /\ toolNode = <<>>
  /\ toolCache = <<>>
  /\ turn = [t \in Turns |-> IdleTurn]
  /\ attempts = [n \in ServerIds |-> 0]
  /\ runs = 0

InitOAuth ==
  /\ oauth_tokens = {}
  /\ now = 1000
  /\ issued = 0
  /\ pc = [p \in Procs |-> "idle"]
  /\ op = [p \in Procs |-> IdleOp]
  /\ calls = 0

Init ==
  /\ InitOAuth
  /\ rt = IdleRt
  /\ InitToolVars

\* ------------------------------------------------------------- OAuthManager
\* a route's answer before it reaches the manager: 400 without a provider
\* parameter, 401 without a session user, 400 for "Unknown OAuth provider"
EarlyStatus(user, providerName) ==
  IF providerName = "" THEN 400
  ELSE IF user = None THEN 401
  ELSE IF OAuthManager(providerName).threw THEN 400
  ELSE 0

\* the locals of a route that answered early
EarlyOp(kind, user, providerName) ==
  [NewOp(kind, IF user = None THEN <<>> ELSE user[1], providerName) EXCEPT
     !.sessionUser = user,
     !.status = EarlyStatus(user, providerName),
     !.threw = (providerName # "" /\ user # None)]

\* status GET (part_001 lines 150-201) up to the select of getToken being sent
GetCall(p, user, providerName) ==
  /\ Free(p)
  /\ IF EarlyStatus(user, providerName) # 0
     THEN /\ pc' = [pc EXCEPT ![p] = "done"]
          /\ op' = [op EXCEPT ![p] = EarlyOp("get", user, providerName)]
     ELSE /\ pc' = [pc EXCEPT ![p] = "get_select"]
          /\ op' = [op EXCEPT ![p] = [NewOp("get", user[1], providerName) EXCEPT
                                        !.sessionUser = user]]
  /\ calls' = calls + 1
  /\ UNCHANGED <<oauth_tokens, now, issued, rt, toolVars>>

\* getToken lines 189-220: the select answers; return or start the refresh
getToken_select(p, dbError) ==
  /\ pc[p] = "get_select"
  /\ LET col == toLowerCase(OAuthManager(op[p].provider).provider.name)
         rows == SelectRows(oauth_tokens, op[p].userId, col)
     IN
     IF dbError \/ Cardinality(rows) # 1
     THEN /\ pc' = [pc EXCEPT ![p] = "done"]
          /\ op' = [op EXCEPT ![p].result = None, ![p].status = 200]
     ELSE LET data == CHOOSE r \in rows : TRUE
              token == TokenOfRow(data)
          IN
          IF ShouldRefresh(token, now)
          THEN /\ pc' = [pc EXCEPT ![p] = "get_refresh"]
               /\ op' = [op EXCEPT ![p].token = Some(token), ![p].refreshCalled = TRUE]
          ELSE /\ pc' = [pc EXCEPT ![p] = "done"]
               /\ op' = [op EXCEPT ![p].result = Some(token), ![p].status = 200]
  /\ UNCHANGED <<oauth_tokens, now, issued, calls, rt, toolVars>>

getToken_selectStep(p) == \E dbError \in BOOLEAN : getToken_select(p, dbError)

\* refreshToken answers: ok with a new credential, or the call throws (caught at 214)
getToken_refresh(p, ok, withRefresh, expiresIn) ==
  /\ pc[p] = "get_refresh"
  /\ IF ok
     THEN /\ issued < MaxIssued
          /\ issued' = issued + 1
          /\ pc' = [pc EXCEPT ![p] = "get_store"]
          /\ op' = [op EXCEPT ![p].refreshed =
                      Some(RefreshedToken(TokenData(issued + 1, withRefresh, expiresIn),
                                          op[p].token[1].refresh_token, now))]
     ELSE /\ pc' = [pc EXCEPT ![p] = "done"]
          /\ op' = [op EXCEPT ![p].result = None, ![p].token = None, ![p].status = 200]
          /\ UNCHANGED issued
  /\ UNCHANGED <<oauth_tokens, now, calls, rt, toolVars>>

getToken_refreshStep(p) ==
  \E ok \in BOOLEAN, withRefresh \in BOOLEAN, expiresIn \in ExpiresIns :
    getToken_refresh(p, ok, withRefresh, expiresIn)

\* the catch of lines 214-217 left out: the unsaved credential is returned
getToken_store_returnsUnsaved(p, ok) ==
  /\ pc[p] = "get_store"
  /\ pc' = [pc EXCEPT ![p] = "done"]
  /\ IF ok
     THEN /\ oauth_tokens' = Upsert(oauth_tokens,
                                    RowOf(op[p].userId, OAuthManager(op[p].provider).provider,
                                          op[p].refreshed[1]))
          /\ op' = [op EXCEPT ![p].result = op[p].refreshed, ![p].wrote = TRUE,
                               ![p].token = None, ![p].refreshed = None, ![p].status = 200]
     ELSE /\ op' = [op EXCEPT ![p].result = op[p].refreshed, ![p].token = None,
                               ![p].refreshed = None, ![p].status = 200]
          /\ UNCHANGED oauth_tokens
  /\ UNCHANGED <<now, issued, calls, rt, toolVars>>

\* storeToken(userId, refreshedToken) answers, then getToken returns (212-217)
getToken_store(p, ok) ==
  /\ pc[p] = "get_store"
  /\ pc' = [pc EXCEPT ![p] = "done"]
  /\ IF ok
     THEN /\ oauth_tokens' = Upsert(oauth_tokens,
                                    RowOf(op[p].userId, OAuthManager(op[p].provider).provider,
                                          op[p].refreshed[1]))
          /\ op' = [op EXCEPT ![p].result = op[p].refreshed, ![p].wrote = TRUE,
                               ![p].token = None, ![p].refreshed = None, ![p].status = 200]
     ELSE /\ op' = [op EXCEPT ![p].result = None, ![p].token = None, ![p].refreshed = None,
                               ![p].status = 200]
          /\ UNCHANGED oauth_tokens
  /\ UNCHANGED <<now, issued, calls, rt, toolVars>>

getToken_storeStep(p) == \E ok \in BOOLEAN : getToken_store(p, ok)

\* hasValidToken: token !== null
hasValidToken(result) == result # None

\* DELETE (part_001 lines 203-253) up to the delete of revokeToken being sent
RevokeCall(p, user, providerName) ==
  /\ Free(p)
  /\ IF EarlyStatus(user, providerName) # 0
     THEN /\ pc' = [pc EXCEPT ![p] = "done"]
          /\ op' = [op EXCEPT ![p] = EarlyOp("revoke", user, providerName)]
     ELSE /\ pc' = [pc EXCEPT ![p] = "revoke"]
          /\ op' = [op EXCEPT ![p] = [NewOp("revoke", user[1], providerName) EXCEPT
                                        !.sessionUser = user]]
  /\ calls' = calls + 1
  /\ UNCHANGED <<oauth_tokens, now, issued, rt, toolVars>>

\* a revoke that also empties the tool cache
revokeToken_invalidates(p, ok) ==
  /\ pc[p] = "revoke"
  /\ pc' = [pc EXCEPT ![p] = "done"]
  /\ IF ok
     THEN /\ oauth_tokens' = DeleteRows(oauth_tokens, op[p].userId,
                                        toLowerCase(OAuthManager(op[p].provider).provider.name))
          /\ op' = [op EXCEPT ![p].wrote = TRUE, ![p].status = 200]
     ELSE /\ op' = [op EXCEPT ![p].threw = TRUE, ![p].status = 500]
          /\ UNCHANGED oauth_tokens
  /\ toolCache' = <<>>
  /\ UNCHANGED <<now, issued, calls, rt, turn, attempts, runs, node, graph, toolNode, apiVars>>

\* revokeToken lines 237-245: the delete answers
revokeToken(p, ok) ==
  /\ pc[p] = "revoke"
  /\ pc' = [pc EXCEPT ![p] = "done"]
  /\ IF ok
     THEN /\ oauth_tokens' = DeleteRows(oauth_tokens, op[p].userId,
                                        toLowerCase(OAuthManager(op[p].provider).provider.name))
          /\ op' = [op EXCEPT ![p].wrote = TRUE, ![p].status = 200]
     ELSE /\ op' = [op EXCEPT ![p].threw = TRUE, ![p].status = 500]
          /\ UNCHANGED oauth_tokens
  /\ UNCHANGED <<now, issued, calls, rt, toolVars>>

revokeTokenStep(p) == \E ok \in BOOLEAN : revokeToken(p, ok)

\* ------------------------------------------------- the OAuth callback route
\* generateAuthUrl line 76 and 81: the state parameter of the URL, serialised
generateAuthUrl(state, userId) == Encode(state \o <<":">> \o userId)

\* callback line 27: const [stateToken, userId] = state.split(":")
\* (a missing second piece is undefined, falsy like the empty string)
ParseUserId(state) ==
  LET parts == split(state, ":") IN
  IF Len(parts) >= 2 THEN parts[2] ELSE <<>>

\* the comparison with the session user left out: any signed-in user passes
Authorized_anySession(user, userId) == user # None

\* callback line 38: !user || user.id !== userId throws "Unauthorized"
Authorized(user, userId) == user # None /\ user[1] = userId

\* POST initiate (part_001 lines 97-148): the whole handler; anti is the uuid
InitiatePOST(p, user, providerName, anti) ==
  /\ Free(p)
  /\ pc' = [pc EXCEPT ![p] = "done"]
  /\ IF EarlyStatus(user, providerName) # 0
     THEN op' = [op EXCEPT ![p] = EarlyOp("initiate", user, providerName)]
     ELSE IF ~OAuthManager(providerName).provider.scopes
     THEN \* generateAuthUrl: this.provider.scopes.join throws a TypeError
          op' = [op EXCEPT ![p] = [NewOp("initiate", user[1], providerName) EXCEPT
                                     !.sessionUser = user, !.threw = TRUE, !.status = 500]]
     ELSE op' = [op EXCEPT ![p] = [NewOp("initiate", user[1], providerName) EXCEPT
                                     !.sessionUser = user, !.status = 200,
                                     !.authUrl = generateAuthUrl(anti, user[1])]]
  /\ calls' = calls + 1
  /\ UNCHANGED <<oauth_tokens, now, issued, rt, toolVars>>

\* what a callback request may carry
Codes == {"", "c"}
OAuthErrors == {"", "access_denied"}
CallbackStates ==
  {<<>>, <<"a">>, <<"a", ":">>, <<"a", ":", "u", ":", "v">>}
    \cup {<<"a", ":">> \o u : u \in Users}
SessionUsers == {None} \cup {Some(u) : u \in Users}

\* values of uuidv4()
Uuids == {<<"a">>}

\* callback lines 5-44: from the request to the exchange request being sent
CallbackGET(p, code, state, error, sessionUser) ==
  /\ Free(p)
  /\ LET userId == ParseUserId(state)
         o == [NewOp("callback", userId, "google") EXCEPT !.sessionUser = sessionUser]
     IN
     IF error # ""
     THEN /\ pc' = [pc EXCEPT ![p] = "done"]
          /\ op' = [op EXCEPT ![p] = [o EXCEPT !.userId = <<>>, !.redirect = "error=oauth_error"]]
     ELSE IF code = "" \/ state = <<>>
     THEN /\ pc' = [pc EXCEPT ![p] = "done"]
          /\ op' = [op EXCEPT ![p] = [o EXCEPT !.userId = <<>>, !.redirect = "error=missing_oauth_params"]]
     ELSE IF userId = <<>>
     THEN /\ pc' = [pc EXCEPT ![p] = "done"]
          /\ op' = [op EXCEPT ![p] = [o EXCEPT !.redirect = "error=oauth_callback_failed"]]
     ELSE IF ~Authorized(sessionUser, userId)
     THEN /\ pc' = [pc EXCEPT ![p] = "done"]
          /\ op' = [op EXCEPT ![p] = [o EXCEPT !.redirect = "error=oauth_callback_failed"]]
     ELSE /\ pc' = [pc EXCEPT ![p] = "cb_exchange"]
          /\ op' = [op EXCEPT ![p] = [o EXCEPT !.exchanged = TRUE]]
  /\ calls' = calls + 1
  /\ UNCHANGED <<oauth_tokens, now, issued, rt, toolVars>>

\* exchangeCodeForToken answers (callback line 44)
callback_exchange(p, ok, withRefresh, expiresIn) ==
  /\ pc[p] = "cb_exchange"
  /\ IF ok
     THEN /\ issued < MaxIssued
          /\ issued' = issued + 1
          /\ pc' = [pc EXCEPT ![p] = "cb_store"]
          /\ op' = [op EXCEPT ![p].token =
                      Some(ExchangedToken(TokenData(issued + 1, withRefresh, expiresIn), now))]
     ELSE /\ pc' = [pc EXCEPT ![p] = "done"]
          /\ op' = [op EXCEPT ![p].redirect = "error=oauth_callback_failed"]
          /\ UNCHANGED issued
  /\ UNCHANGED <<oauth_tokens, now, calls, rt, toolVars>>

callback_exchangeStep(p) ==
  \E ok \in BOOLEAN, withRefresh \in BOOLEAN, expiresIn \in ExpiresIns :
    callback_exchange(p, ok, withRefresh, expiresIn)

\* the catch of lines 53-58 left out: a failed store escapes the handler
callback_store_uncaught(p, ok) ==
  /\ pc[p] = "cb_store"
  /\ pc' = [pc EXCEPT ![p] = "done"]
  /\ IF ok
     THEN /\ oauth_tokens' = Upsert(oauth_tokens,
                                    RowOf(op[p].userId, OAuthManager("google").provider, op[p].token[1]))
          /\ op' = [op EXCEPT ![p].wrote = TRUE, ![p].redirect = "oauth_success=google",
                               ![p].token = None]
     ELSE /\ op' = [op EXCEPT ![p].threw = TRUE, ![p].token = None]
          /\ UNCHANGED oauth_tokens
  /\ UNCHANGED <<now, issued, calls, rt, toolVars>>

\* storeToken(userId, token) answers, then the redirect (callback lines 47-57)
callback_store(p, ok) ==
  /\ pc[p] = "cb_store"
  /\ pc' = [pc EXCEPT ![p] = "done"]
  /\ IF ok
     THEN /\ oauth_tokens' = Upsert(oauth_tokens,
                                    RowOf(op[p].userId, OAuthManager("google").provider, op[p].token[1]))
          /\ op' = [op EXCEPT ![p].wrote = TRUE, ![p].redirect = "oauth_success=google",
                               ![p].token = None]
     ELSE /\ op' = [op EXCEPT ![p].redirect = "error=oauth_callback_failed", ![p].token = None]
          /\ UNCHANGED oauth_tokens
  /\ UNCHANGED <<now, issued, calls, rt, toolVars>>

callback_storeStep(p) == \E ok \in BOOLEAN : callback_store(p, ok)

\* the clock advances (by two seconds: past the one-second lifetime of a token)
Tick ==
  /\ now < MaxTime
  /\ now' = now + 2000
  /\ UNCHANGED <<oauth_tokens, issued, pc, op, calls, rt, toolVars>>

Next ==
  \/ \E p \in Procs, user \in SessionUsers, prov \in ProviderParams, anti \in Uuids :
       InitiatePOST(p, user, prov, anti)
  \/ \E p \in Procs, user \in SessionUsers, prov \in ProviderParams : GetCall(p, user, prov)
  \/ \E p \in Procs : getToken_selectStep(p)
  \/ \E p \in Procs : getToken_refreshStep(p)
  \/ \E p \in Procs : getToken_storeStep(p)
  \/ \E p \in Procs, user \in SessionUsers, prov \in ProviderParams : RevokeCall(p, user, prov)
  \/ \E p \in Procs : revokeTokenStep(p)
  \/ \E p \in Procs, code \in Codes, state \in CallbackStates, error \in OAuthErrors,
        sessionUser \in SessionUsers : CallbackGET(p, code, state, error, sessionUser)
  \/ \E p \in Procs : callback_exchangeStep(p)
  \/ \E p \in Procs : callback_storeStep(p)
  \/ Tick

Spec == Init /\ [][Next]_vars

\* ------------------------------------------- the state parameter round trip
StateTokens == StringsOver({"a", "b", "%"}, 1, 2)
RtAlphabet == {"u", ":", "%"}
RtUsers == StringsOver(RtAlphabet, 1, MaxStateLen)

InitState ==
  /\ InitOAuth
  /\ \E state \in StateTokens, userId \in RtUsers :
       rt = [IdleRt EXCEPT !.phase = "input", !.state = state, !.userId = userId]
  /\ InitToolVars

\* POST initiate lines 123-131: the URL is issued
IssueAuthUrl ==
  /\ rt.phase = "input"
  /\ rt' = [rt EXCEPT !.phase = "issued", !.authUrl = generateAuthUrl(rt.state, rt.userId)]
  /\ UNCHANGED <<oauthVars, toolVars>>

\* callback lines 8 and 27: the provider echoes the state parameter, the callback parses it
CallbackParse ==
  /\ rt.phase = "issued"
  /\ rt' = [rt EXCEPT !.phase = "parsed", !.recovered = ParseUserId(Decode(rt.authUrl))]
  /\ UNCHANGED <<oauthVars, toolVars>>

NextState == IssueAuthUrl \/ CallbackParse

SpecState == InitState /\ [][NextState]_vars

\* ------------------------------------------------ tool resolution and cache
\* callModel lines 514-516: "memory" is not an MCP server
FilterMemory(servers) == SelectSeq(servers, LAMBDA x : x # memory)

\* the key without the sort
cacheKey_unsorted(enabledServers, userId) ==
  join(enabledServers, <<",">>) \o <<"-">> \o userId

\* callModel line 519
cacheKey(enabledServers, userId) ==
  join(sort(enabledServers), <<",">>) \o <<"-">> \o userId

\* a cached empty list taken for a miss
CacheGet_nonEmpty(cache, key) ==
  IF key \in DOMAIN cache /\ cache[key] # <<>> THEN Some(cache[key]) ELSE None

\* callModel lines 520-521: toolCache.get(cacheKey) and the test !tools
CacheGet(cache, key) == IF key \in DOMAIN cache THEN Some(cache[key]) ELSE None

\* a write that appends to the entry already under the key
CacheSet_merge(cache, key, tools) ==
  (key :> (IF key \in DOMAIN cache THEN cache[key] ELSE <<>>) \o tools) @@ cache

\* toolCache.set(cacheKey, tools)
CacheSet(cache, key, tools) == (key :> tools) @@ cache

\* what the credential store and the provider answer during one resolution
RefreshEnvs ==
  [dbError : BOOLEAN, refreshOk : BOOLEAN, withRefresh : {FALSE}, expiresIn : {1},
   storeOk : BOOLEAN]

\* getToken (lines 186-221) run to completion inside one resolution step
getTokenSync(table, n, userId, providerName, t, env) ==
  LET col == toLowerCase(OAuthManager(providerName).provider.name)
      rows == SelectRows(table, userId, col)
  IN
  IF env.dbError \/ Cardinality(rows) # 1
  THEN [result |-> None, table |-> table, issued |-> n]
  ELSE
    LET token == TokenOfRow(CHOOSE r \in rows : TRUE) IN
    IF ~ShouldRefresh(token, t)
    THEN [result |-> Some(token), table |-> table, issued |-> n]
    ELSE IF ~(env.refreshOk /\ n < MaxIssued)
    THEN [result |-> None, table |-> table, issued |-> n]
    ELSE
      LET refreshed == RefreshedToken(TokenData(n + 1, env.withRefresh, env.expiresIn),
                                      token.refresh_token, t)
      IN
      IF env.storeOk
      THEN [result |-> Some(refreshed),
            table |-> Upsert(table, RowOf(userId, OAuthManager(providerName).provider, refreshed)),
            issued |-> n + 1]
      ELSE [result |-> None, table |-> table, issued |-> n + 1]

\* getMCPToken without its try/catch: the constructor's error escapes
getMCPToken_uncaught(table, n, userId, providerName, t, env) ==
  IF OAuthManager(providerName).threw
  THEN [threw |-> TRUE, token |-> 0, table |-> table, issued |-> n]
  ELSE
    LET g == getTokenSync(table, n, userId, providerName, t, env) IN
    [threw |-> FALSE,
     token |-> IF g.result # None THEN g.result[1].access_token ELSE 0,
     table |-> g.table, issued |-> g.issued]

\* getMCPToken (lines 252-261): token?.access_token || null, every error caught
getMCPToken(table, n, userId, providerName, t, env) ==
  IF OAuthManager(providerName).threw
  THEN [threw |-> FALSE, token |-> 0, table |-> table, issued |-> n]
  ELSE
    LET g == getTokenSync(table, n, userId, providerName, t, env) IN
    [threw |-> FALSE,
     token |-> IF g.result # None THEN g.result[1].access_token ELSE 0,
     table |-> g.table, issued |-> g.issued]

\* the guard of lines 286-291 left out: an unknown identifier gets a config
ConfigLookup_any(serverName) ==
  IF serverName \in DOMAIN MCP_SERVERS_CONFIG
  THEN Some(MCP_SERVERS_CONFIG[serverName])
  ELSE Some([transport |-> "stdio", headers |-> <<>>])

\* MCP_SERVERS_CONFIG[serverName]: an own entry; for "constructor" the inherited
\* function Object, whose spread { ...serverConfig } is the empty config; else
\* undefined
ConfigLookup(serverName) ==
  IF serverName \in DOMAIN MCP_SERVERS_CONFIG
  THEN Some(MCP_SERVERS_CONFIG[serverName])
  ELSE IF serverName = inheritedKey
  THEN Some([transport |-> "", headers |-> <<>>])
  ELSE None

\* mcpServers[serverName] = processedConfig: a key keeps its first position
PutServer(mcpServers, serverName, headers) ==
  IF \E i \in 1..Len(mcpServers) : mcpServers[i].name = serverName
  THEN [i \in 1..Len(mcpServers) |->
          IF mcpServers[i].name = serverName
          THEN [name |-> serverName, headers |-> headers]
          ELSE mcpServers[i]]
  ELSE Append(mcpServers, [name |-> serverName, headers |-> headers])

\* lines 309-314 with the placeholder's provider left out of the result: an
\* absent token blanks the header
processedValue_blank(value, token) ==
  IF token # 0 THEN Header("Bearer ", "", token) ELSE Header("", "", 0)

\* lines 302-316: the value written for a placeholder, given what getMCPToken
\* returned (0 for null)
processedValue(value, token) ==
  IF token # 0 THEN Header("Bearer ", "", token) ELSE value

RECURSIVE processedHeaders(_, _, _, _, _, _)
\* the loop over Object.entries(processedConfig.headers) (lines 301-317) from
\* the j-th value on
processedHeaders(headers, j, userId, t, env, acc) ==
  IF j > Len(headers) \/ acc.threw THEN acc
  ELSE
    LET value == headers[j] IN
    IF value.scheme = "OAUTH:" /\ userId # <<>>
    THEN
      LET r == getMCPToken(acc.table, acc.issued, userId, value.provider, t, env) IN
      processedHeaders(headers, j + 1, userId, t, env,
                       [headers |-> Append(acc.headers, processedValue(value, r.token)),
                        table |-> r.table, issued |-> r.issued, threw |-> r.threw])
    ELSE
      processedHeaders(headers, j + 1, userId, t, env,
                       [acc EXCEPT !.headers = Append(acc.headers, value)])

RECURSIVE ConfigFrom(_, _, _, _, _, _)
\* the loop of getMcpClientConfig (lines 282-334) from the i-th identifier on
ConfigFrom(enabledServers, i, userId, t, env, acc) ==
  IF i > Len(enabledServers) \/ acc.threw THEN acc
  ELSE
    LET serverName == enabledServers[i]
        serverConfig == ConfigLookup(serverName)
    IN
    IF serverConfig = None
    THEN ConfigFrom(enabledServers, i + 1, userId, t, env, acc)
    ELSE
      LET h == processedHeaders(serverConfig[1].headers, 1, userId, t, env,
                                [headers |-> <<>>, table |-> acc.table,
                                 issued |-> acc.issued, threw |-> FALSE])
      IN
      ConfigFrom(enabledServers, i + 1, userId, t, env,
                 [mcpServers |-> PutServer(acc.mcpServers, serverName, h.headers),
                  table |-> h.table, issued |-> h.issued, threw |-> h.threw])

\* getMcpClientConfig (lines 272-343)
getMcpClientConfig(enabledServers, userId, table, n, t, env) ==
  ConfigFrom(enabledServers, 1, userId, t, env,
             [mcpServers |-> <<>>, table |-> table, issued |-> n, threw |-> FALSE])

\* Object.keys(mcpServers)
ServerNames(mcpServers) == {mcpServers[i].name : i \in 1..Len(mcpServers)}

\* the tools a connected server lists, as the client hands them over
ToolsOf(serverName) ==
  IF serverName \in DOMAIN ServerTools
  THEN [i \in 1..Len(ServerTools[serverName]) |->
          [serverName |-> serverName, originalName |-> ServerTools[serverName][i]]]
  ELSE <<>>

RECURSIVE ToolsFrom(_, _, _)
ToolsFrom(mcpServers, i, failed) ==
  IF i > Len(mcpServers) THEN <<>>
  ELSE (IF mcpServers[i].name \in failed THEN <<>> ELSE ToolsOf(mcpServers[i].name))
         \o ToolsFrom(mcpServers, i + 1, failed)

\* what MultiServerMCPClient does when a connection fails is not fixed by the
\* repository: it rejects (the default of the library) or it skips the server
ConnectionErrorModes == {"throw", "ignore"}

\* new MultiServerMCPClient(mcpServers), initializeConnections(), getTools():
\* the servers are connected in order; failed is the set whose connection fails
InitializeConnections(mcpServers, failed, mode) ==
  LET idx == {i \in 1..Len(mcpServers) : mcpServers[i].name \in failed}
      firstFail == IF idx = {} THEN 0 ELSE CHOOSE i \in idx : \A j \in idx : i <= j
      rejects == firstFail # 0 /\ mode = "throw"
  IN
  [threw |-> rejects,
   attempted |-> {mcpServers[i].name :
                    i \in 1..(IF rejects THEN firstFail ELSE Len(mcpServers))},
   tools |-> IF rejects THEN <<>> ELSE ToolsFrom(mcpServers, 1, failed)]

\* initializeMCPClient lines 370-408: the try block and its catch
ToolsOrEmpty(r) == IF r.threw THEN <<>> ELSE r.tools

\* callModel lines 513-527 on entry: cache hit, or miss and initializeMCPClient starts
callModel_lookup(t, enabled_mcp_servers, userId) ==
  /\ turn[t].pc \in {"idle", "done"}
  /\ runs < MaxRuns
  /\ runs' = runs + 1
  /\ LET enabledServers == FilterMemory(enabled_mcp_servers)
         key == cacheKey(enabledServers, userId)
         tools == CacheGet(toolCache, key)
         base == [IdleTurn EXCEPT !.entry = "callModel", !.enabledServers = enabledServers,
                                  !.userId = userId, !.cacheKey = key]
     IN
     IF tools # None
     THEN turn' = [turn EXCEPT ![t] = [base EXCEPT !.pc = "done", !.cacheHit = TRUE,
                                                   !.tools = tools[1]]]
     ELSE turn' = [turn EXCEPT ![t] = [base EXCEPT !.pc = "config"]]
  /\ UNCHANGED <<oauthVars, rt, toolCache, attempts, node, graph, toolNode, apiVars>>

\* getToolsInfoForServers (lines 602-603): a resolution asked for directly,
\* with or without a user, that does not go through the cache
getToolsInfoForServers(t, enabledServers, userId) ==
  /\ turn[t].pc \in {"idle", "done"}
  /\ runs < MaxRuns
  /\ runs' = runs + 1
  /\ turn' = [turn EXCEPT ![t] = [IdleTurn EXCEPT !.pc = "config",
                                                  !.entry = "getToolsInfoForServers",
                                                  !.enabledServers = FilterMemory(enabledServers),
                                                  !.userId = userId]]
  /\ UNCHANGED <<oauthVars, rt, toolCache, attempts, node, graph, toolNode, apiVars>>

\* initializeMCPClient lines 357-362: the config is built; no server, no tools
initializeMCPClient_config(t, env) ==
  /\ turn[t].pc = "config"
  /\ LET c == getMcpClientConfig(turn[t].enabledServers, turn[t].userId,
                                 oauth_tokens, issued, now, env)
     IN
     /\ oauth_tokens' = c.table
     /\ issued' = c.issued
     /\ IF c.threw
        THEN /\ turn' = [turn EXCEPT ![t].pc = "done", ![t].threw = TRUE]
             /\ UNCHANGED toolCache
        ELSE IF Len(c.mcpServers) = 0
        THEN /\ turn' = [turn EXCEPT ![t].pc = "done", ![t].tools = <<>>]
             /\ toolCache' = IF turn[t].entry = "callModel"
                              THEN CacheSet(toolCache, turn[t].cacheKey, <<>>)
                              ELSE toolCache
        ELSE /\ turn' = [turn EXCEPT ![t].pc = "connecting", ![t].mcpServers = c.mcpServers]
             /\ UNCHANGED toolCache
  /\ UNCHANGED <<now, pc, op, calls, rt, attempts, runs, node, graph, toolNode, apiVars>>

\* initializeMCPClient lines 370-408 and callModel line 524: the connections
\* settle, the tools are cached
initializeMCPClient_connect(t, failed, mode) ==
  /\ turn[t].pc = "connecting"
  /\ LET r == InitializeConnections(turn[t].mcpServers, failed, mode)
         tools == ToolsOrEmpty(r)
     IN
     /\ turn' = [turn EXCEPT ![t].pc = "done", ![t].tools = tools, ![t].failed = failed]
     /\ toolCache' = IF turn[t].entry = "callModel"
                      THEN CacheSet(toolCache, turn[t].cacheKey, tools)
                      ELSE toolCache
     /\ attempts' = [n \in ServerIds |-> attempts[n] + (IF n \in r.attempted THEN 1 ELSE 0)]
  /\ UNCHANGED <<oauthVars, rt, runs, node, graph, toolNode, apiVars>>

\* any set of the configured servers may fail to connect; a server configured
\* without a transport cannot connect
initializeMCPClient_connectStep(t) ==
  \E mode \in ConnectionErrorModes, failed \in SUBSET ServerNames(turn[t].mcpServers) :
    /\ ServerNames(turn[t].mcpServers) \ DOMAIN MCP_SERVERS_CONFIG \subseteq failed
    /\ initializeMCPClient_connect(t, failed, mode)

\* credential stores a resolution may find
ToolStores ==
  {{},
   {RowOf(<<"u">>, OAuthManager("google").provider, OAuthToken(1, 0, 0, "Bearer"))},
   {RowOf(<<"u">>, OAuthManager("google").provider, OAuthToken(1, 1, 2000, "Bearer"))}}

InitTools ==
  /\ oauth_tokens \in ToolStores
  /\ now = 3000
  /\ issued = 1
  /\ pc = [p \in Procs |-> "idle"]
  /\ op = [p \in Procs |-> IdleOp]
  /\ calls = 0
  /\ rt = IdleRt
  /\ InitToolVars

NextTools ==
  \/ \E t \in Turns, enabled \in EnabledLists, u \in Users : callModel_lookup(t, enabled, u)
  \/ \E t \in Turns, env \in RefreshEnvs : initializeMCPClient_config(t, env)
  \/ \E t \in Turns : initializeMCPClient_connectStep(t)

SpecTools == InitTools /\ [][NextTools]_vars

\* one caller resolving directly, one resolution after the other
NextConfig ==
  \/ \E enabled \in DirectLists, u \in Users \cup {<<>>} :
       getToolsInfoForServers("t1", enabled, u)
  \/ \E t \in Turns, env \in RefreshEnvs : initializeMCPClient_config(t, env)
  \/ \E t \in Turns : initializeMCPClient_connectStep(t)

SpecConfig == InitTools /\ [][NextConfig]_vars

\* the enabled lists of the turns that share the cache with the revoking user
CacheLists == StringsOver({serverA, gmail}, 0, MaxEnabled)

\* one turn resolving through the cache while one request handler revokes and
\* stores the credential of user u
NextCache ==
  \/ \E enabled \in CacheLists : callModel_lookup("t1", enabled, <<"u">>)
  \/ \E env \in RefreshEnvs : initializeMCPClient_config("t1", env)
  \/ initializeMCPClient_connectStep("t1")
  \/ RevokeCall("p1", Some(<<"u">>), "google")
  \/ revokeTokenStep("p1")
  \/ CallbackGET("p1", "c", <<"a", ":", "u">>, "", Some(<<"u">>))
  \/ callback_exchangeStep("p1")
  \/ callback_storeStep("p1")

SpecCache == InitTools /\ [][NextCache]_vars

\* identifiers and user ids are arbitrary strings: they may contain the
\* characters the key is built with
dashed == <<"a", "-", "g">>
commaed == <<"a", ",", "g">>
KeyLists == StringsOver({serverA, gmail, dashed, commaed}, 0, MaxEnabled)
KeyUsers == {<<"u">>, <<"g", "-", "u">>}

\* chat turns whose identifiers and user ids are arbitrary strings
NextKey ==
  \/ \E t \in Turns, enabled \in KeyLists, u \in KeyUsers : callModel_lookup(t, enabled, u)
  \/ \E t \in Turns, env \in RefreshEnvs : initializeMCPClient_config(t, env)
  \/ \E t \in Turns : initializeMCPClient_connectStep(t)

SpecKey == InitTools /\ [][NextKey]_vars

\* ------------------------------------------ the agent graph (part_004)
\* the configurations of the runs: enabled servers and the id the run carries
RunLists == {<<serverA>>, <<gmail>>}
RunUsers == {<<"u">>}

\* shouldUpdateMemory (lines 135-146)
shouldUpdateMemory(has_memory_updates) == IF has_memory_updates THEN "agent" ELSE "skipMemory"

\* the test on tool_calls left out: the run always goes to the tools node
shouldContinue_always(toolCalls) == "tools"

\* shouldContinue (lines 430-447)
shouldContinue(toolCalls) == IF toolCalls THEN "tools" ELSE "__end__"

\* callModel lines 519-527 in one piece: the list from the cache, or resolved
\* by initializeMCPClient and cached
Connected(c, failed, mode) ==
  IF c.threw \/ Len(c.mcpServers) = 0
  THEN [threw |-> c.threw, attempted |-> {}, tools |-> <<>>]
  ELSE InitializeConnections(c.mcpServers, failed, mode)

ResolveResult(key, c, r) ==
  [tools |-> ToolsOrEmpty(r), cache |-> CacheSet(toolCache, key, ToolsOrEmpty(r)),
   table |-> c.table, issued |-> c.issued, attempted |-> r.attempted]

ConnectAndCache(key, c, failed, mode) == ResolveResult(key, c, Connected(c, failed, mode))

CachedOr(key, cached, enabledServers, userId, env, failed, mode) ==
  IF cached # None
  THEN [tools |-> cached[1], cache |-> toolCache, table |-> oauth_tokens,
        issued |-> issued, attempted |-> {}]
  ELSE ConnectAndCache(key,
                       getMcpClientConfig(enabledServers, userId, oauth_tokens, issued, now, env),
                       failed, mode)

ResolveTools(enabledServers, userId, env, failed, mode) ==
  CachedOr(cacheKey(enabledServers, userId),
           CacheGet(toolCache, cacheKey(enabledServers, userId)),
           enabledServers, userId, env, failed, mode)

\* a run is started with its configuration: __start__ -> retrieveKb
run_start(t, enabled, userId) ==
  /\ graph[t].at \in {"none", "__end__"}
  /\ runs < MaxRuns
  /\ graph' = [graph EXCEPT ![t] = [IdleRun EXCEPT !.at = "retrieveKb",
                                                   !.enabled_mcp_servers = enabled,
                                                   !.userId = userId]]
  /\ UNCHANGED <<oauthVars, rt, toolCache, turn, attempts, runs, node, toolNode, apiVars>>

\* retrieveKb -> writeMemory
retrieveKb(t) ==
  /\ graph[t].at = "retrieveKb"
  /\ graph' = [graph EXCEPT ![t].at = "writeMemory"]
  /\ UNCHANGED <<oauthVars, rt, toolCache, turn, attempts, runs, node, toolNode, apiVars>>

\* writeMemory returns has_memory_updates (false when nothing was extracted or
\* an error was caught); whether a key that is not a channel of
\* MessagesAnnotation reaches the conditional edge is up to the platform
writeMemory(t, has_memory_updates, kept) ==
  /\ graph[t].at = "writeMemory"
  /\ graph' = [graph EXCEPT ![t].at = shouldUpdateMemory(has_memory_updates /\ kept)]
  /\ UNCHANGED <<oauthVars, rt, toolCache, turn, attempts, runs, node, toolNode, apiVars>>

\* skipMemory -> agent
skipMemory(t) ==
  /\ graph[t].at = "skipMemory"
  /\ graph' = [graph EXCEPT ![t].at = "agent"]
  /\ UNCHANGED <<oauthVars, rt, toolCache, turn, attempts, runs, node, toolNode, apiVars>>

\* the agent node: callModel resolves the run's tools, installs them on the
\* shared tool node (line 538), the model answers with or without tool calls,
\* and the conditional edge follows
callModel(t, env, failed, mode, toolCalls) ==
  /\ graph[t].at = "agent"
  /\ runs < MaxRuns
  /\ runs' = runs + 1
  /\ \E r \in {ResolveTools(FilterMemory(graph[t].enabled_mcp_servers), graph[t].userId,
                            env, failed, mode)} :
     /\ toolCache' = r.cache
     /\ oauth_tokens' = r.table
     /\ issued' = r.issued
     /\ attempts' = [n \in ServerIds |-> attempts[n] + (IF n \in r.attempted THEN 1 ELSE 0)]
     /\ toolNode' = r.tools
     /\ graph' = [graph EXCEPT ![t].tools = r.tools, ![t].toolCalls = toolCalls,
                                ![t].executed = FALSE,
                                ![t].at = shouldContinue(toolCalls)]
  /\ UNCHANGED <<now, pc, op, calls, rt, turn, node, apiVars>>

\* the tools node: the shared toolNode executes the last message's tool calls
\* with the list it holds now; tools -> agent
tools_invoke(t) ==
  /\ graph[t].at = "tools"
  /\ graph' = [graph EXCEPT ![t].at = "agent", ![t].executed = TRUE, ![t].used = toolNode]
  /\ UNCHANGED <<oauthVars, rt, toolCache, turn, attempts, runs, node, toolNode, apiVars>>

NextRun ==
  \/ \E t \in Turns, enabled \in RunLists, u \in RunUsers : run_start(t, enabled, u)
  \/ \E t \in Turns : retrieveKb(t)
  \/ \E t \in Turns, has_memory_updates \in BOOLEAN, kept \in BOOLEAN :
       writeMemory(t, has_memory_updates, kept)
  \/ \E t \in Turns : skipMemory(t)
  \/ \E t \in Turns, env \in RefreshEnvs, failed \in SUBSET {serverA, gmail},
        mode \in ConnectionErrorModes, toolCalls \in BOOLEAN :
       callModel(t, env, failed, mode, toolCalls)
  \/ \E t \in Turns : tools_invoke(t)

SpecRun == InitTools /\ [][NextRun]_vars

\* ---------------------------------- the thread endpoint (threads route.ts)
\* what client.threads.get may answer for an id: the thread, nothing, or it
\* throws (the SDK decides which of the two a missing thread gives)
GetOutcomes(threadId) ==
  IF \E th \in threads : th.id = threadId THEN {"found", "throws"} ELSE {"null", "throws"}

ThreadOf(threadId) == CHOOSE th \in threads : th.id = threadId

\* the ownership test left out
Owns_any(thread, user) == TRUE

\* line 36 and 77: thread.metadata?.user_id !== user.id
Owns(thread, user) == thread.user_id = Some(user)

\* lines 16-38 and 59-79: the answer before the thread is returned or deleted
\* (0: none)
ThreadEarlyStatus(user, threadId, got) ==
  IF user = None THEN 401
  ELSE IF got = "throws" THEN 500
  ELSE IF got = "null" THEN 404
  ELSE IF ~Owns(ThreadOf(threadId), user[1]) THEN 403
  ELSE 0

\* GET (lines 7-48)
ThreadGET(p, user, threadId, got) ==
  /\ reply[p].pc \in {"idle", "done"}
  /\ user # None => got \in GetOutcomes(threadId)
  /\ LET status == ThreadEarlyStatus(user, threadId, got)
         r == [IdleReply EXCEPT !.pc = "done", !.kind = "get", !.user = user,
                                !.threadId = threadId]
     IN
     reply' = [reply EXCEPT ![p] =
                 IF status # 0 THEN [r EXCEPT !.status = status]
                 ELSE [r EXCEPT !.status = 200, !.body = Some(ThreadOf(threadId))]]
  /\ UNCHANGED <<oauthVars, rt, toolVarsButApi, threads, stream>>

\* DELETE (lines 50-79): authentication, the thread is fetched, ownership
ThreadDELETE(p, user, threadId, got) ==
  /\ reply[p].pc \in {"idle", "done"}
  /\ user # None => got \in GetOutcomes(threadId)
  /\ LET status == ThreadEarlyStatus(user, threadId, got)
         r == [IdleReply EXCEPT !.kind = "delete", !.user = user, !.threadId = threadId]
     IN
     reply' = [reply EXCEPT ![p] =
                 IF status # 0 THEN [r EXCEPT !.pc = "done", !.status = status]
                 ELSE [r EXCEPT !.pc = "deleting"]]
  /\ UNCHANGED <<oauthVars, rt, toolVarsButApi, threads, stream>>

\* DELETE (lines 81-91): client.threads.delete answers or throws
ThreadDELETE_delete(p, ok) ==
  /\ reply[p].pc = "deleting"
  /\ IF ok
     THEN /\ threads' = {th \in threads : th.id # reply[p].threadId}
          /\ reply' = [reply EXCEPT ![p].pc = "done", ![p].status = 200]
     ELSE /\ reply' = [reply EXCEPT ![p].pc = "done", ![p].status = 500]
          /\ UNCHANGED threads
  /\ UNCHANGED <<oauthVars, rt, toolVarsButApi, stream>>

NextThreads ==
  \/ \E p \in Procs, user \in SessionUsers, threadId \in ThreadIds,
        got \in {"found", "null", "throws"} : ThreadGET(p, user, threadId, got)
  \/ \E p \in Procs, user \in SessionUsers, threadId \in ThreadIds,
        got \in {"found", "null", "throws"} : ThreadDELETE(p, user, threadId, got)
  \/ \E p \in Procs, ok \in BOOLEAN : ThreadDELETE_delete(p, ok)

SpecThreads == Init /\ [][NextThreads]_vars

\* ------------------------------------- the run endpoint (threads route.ts)
\* agent ids, the user_agents table and the agents' configurations
AgentIds == {<<"b">>, <<"c">>}
user_agents == {[user_id |-> <<"u">>, agent_id |-> <<"b">>],
                [user_id |-> <<"v">>, agent_id |-> <<"c">>]}
AgentConfig == (<<"b">> :> <<gmail>>) @@ (<<"c">> :> <<serverA, gmail>>)

\* lines 164-223: the answers before the stream is opened (0: none, the run
\* is accepted)
RunEarlyStatus(user, id, threadOfAgent, agentFound, contentIsString) ==
  IF user = None THEN 401
  ELSE IF ~\E r \in user_agents : r.user_id = user[1] /\ r.agent_id = id THEN 404
  ELSE IF ~threadOfAgent THEN 404
  ELSE IF ~agentFound THEN 500
  ELSE IF ~contentIsString THEN 400
  ELSE 0

\* lines 236-239: configurable = { ...agent.config, agentId: id }
Configurable(id) == [enabled_mcp_servers |-> AgentConfig[id], agentId |-> id]

\* POST (lines 154-291): the request is answered early, or the run is handed
\* to the platform with the configurable
POST_run(t, user, id, threadOfAgent, agentFound, contentIsString) ==
  /\ graph[t].at = "none"
  /\ turn[t].pc = "idle"
  /\ LET status == RunEarlyStatus(user, id, threadOfAgent, agentFound, contentIsString) IN
     IF status # 0
     THEN /\ graph' = [graph EXCEPT ![t] = [IdleRun EXCEPT !.at = "answered", !.status = status]]
          /\ UNCHANGED stream
     ELSE /\ graph' = [graph EXCEPT ![t] =
                         [IdleRun EXCEPT !.at = "agent", !.status = 200, !.sender = user[1],
                                         !.enabled_mcp_servers = Configurable(id).enabled_mcp_servers,
                                         !.userId = Configurable(id).agentId]]
          /\ stream' = [stream EXCEPT ![t] = [IdleStream EXCEPT !.pc = "streaming"]]
  /\ UNCHANGED <<oauthVars, rt, toolCache, turn, attempts, runs, node, toolNode, threads, reply>>

\* bound on the events the platform's stream yields for one run
MaxEvents == 2

\* lines 255-258: Array.isArray(event.data) && event.data[0]?.content !== undefined
Forwarded(isArray, hasContent) == isArray /\ hasContent

\* lines 254-262: the event stream yields an event; one with content is
\* written to the response; a write to a response the client has cancelled
\* rejects, the catch's write rejects as well, and the finally is next
stream_event(t, isArray, hasContent) ==
  /\ stream[t].pc = "streaming"
  /\ stream[t].received < MaxEvents
  /\ stream' = [stream EXCEPT
       ![t].received = @ + 1,
       ![t].withContent = @ + (IF isArray /\ hasContent THEN 1 ELSE 0),
       ![t].written = IF Forwarded(isArray, hasContent) /\ ~stream[t].cancelled
                      THEN Append(@, "data") ELSE @,
       ![t].pc = IF Forwarded(isArray, hasContent) /\ stream[t].cancelled
                 THEN "finally" ELSE "streaming"]
  /\ UNCHANGED <<oauthVars, rt, toolVarsButApi, threads, reply>>

\* lines 263-271: the event stream throws; the catch writes one error event
stream_throws(t) ==
  /\ stream[t].pc = "streaming"
  /\ stream' = [stream EXCEPT
       ![t].threw = TRUE,
       ![t].written = IF stream[t].cancelled THEN @ ELSE Append(@, "error"),
       ![t].pc = "finally"]
  /\ UNCHANGED <<oauthVars, rt, toolVarsButApi, threads, reply>>

\* the event stream is exhausted: the loop ends
stream_completes(t) ==
  /\ stream[t].pc = "streaming"
  /\ stream' = [stream EXCEPT ![t].pc = "finally"]
  /\ UNCHANGED <<oauthVars, rt, toolVarsButApi, threads, reply>>

\* lines 272-274: finally, writer.close(); on a cancelled response it rejects
stream_close(t) ==
  /\ stream[t].pc = "finally"
  /\ stream' = [stream EXCEPT
       ![t].pc = IF stream[t].cancelled THEN "aborted" ELSE "closed",
       ![t].closes = IF stream[t].cancelled THEN @ ELSE @ + 1]
  /\ UNCHANGED <<oauthVars, rt, toolVarsButApi, threads, reply>>

\* the client goes away while the response is open
client_cancel(t) ==
  /\ stream[t].pc \in {"streaming", "finally"}
  /\ ~stream[t].cancelled
  /\ stream' = [stream EXCEPT ![t].cancelled = TRUE]
  /\ UNCHANGED <<oauthVars, rt, toolVarsButApi, threads, reply>>

NextStream ==
  \/ \E t \in Turns, user \in SessionUsers, id \in AgentIds, threadOfAgent \in BOOLEAN,
        agentFound \in BOOLEAN, contentIsString \in BOOLEAN :
       POST_run(t, user, id, threadOfAgent, agentFound, contentIsString)
  \/ \E t \in Turns, isArray \in BOOLEAN, hasContent \in BOOLEAN :
       stream_event(t, isArray, hasContent)
  \/ \E t \in Turns : stream_throws(t)
  \/ \E t \in Turns : stream_completes(t)
  \/ \E t \in Turns : stream_close(t)
  \/ \E t \in Turns : client_cancel(t)

SpecStream == Init /\ [][NextStream]_vars

\* the platform's event stream is finite (it completes or throws) and the
\* handler's pending continuation is run
LiveStream ==
  /\ SpecStream
  /\ \A t \in Turns :
       /\ WF_vars(stream_completes(t) \/ stream_throws(t))
       /\ WF_vars(stream_close(t))

\* the platform runs the graph: callModel reads configurable.agentId as userId
\* (part_004 line 466) and looks the tools up
agent_enter(t) ==
  /\ graph[t].at = "agent"
  /\ turn[t].pc = "idle"
  /\ callModel_lookup(t, graph[t].enabled_mcp_servers, graph[t].userId)

NextEndpoint ==
  \/ \E t \in Turns, user \in SessionUsers, id \in AgentIds, threadOfAgent \in BOOLEAN,
        agentFound \in BOOLEAN, contentIsString \in BOOLEAN :
       POST_run(t, user, id, threadOfAgent, agentFound, contentIsString)
  \/ \E t \in Turns : agent_enter(t)
  \/ \E t \in Turns, env \in RefreshEnvs : initializeMCPClient_config(t, env)
  \/ \E t \in Turns : initializeMCPClient_connectStep(t)

SpecEndpoint == InitTools /\ [][NextEndpoint]_vars

\* ------------------------------ loading the user's servers' tools (oauth.ts)
\* `${qualifiedName}__${tool.name}`
PrefixedName(qualifiedName, toolName) == qualifiedName \o <<"_", "_">> \o toolName

\* serverTools.tools.map(...): each listed tool renamed, its original name and
\* server kept
prefixedTools(qualifiedName, listing) ==
  [k \in 1..Len(listing) |->
     [name |-> PrefixedName(qualifiedName, listing[k]),
      originalName |-> listing[k],
      serverName |-> qualifiedName]]

\* the node starts: tools = []; with no enabled servers nothing is loaded;
\* getUserMcpServers(userId) answers the user's servers or throws (outer
\* catch); in both cases this.tools stays and super.invoke executes with it
DynamicToolNode_invoke(enabled, allServers, threw) ==
  /\ node.pc \in {"idle", "done"}
  /\ node' = IF Len(enabled) = 0 \/ threw
             THEN [IdleNode EXCEPT !.pc = "done", !.enabled_mcp_servers = enabled,
                                   !.installed = node.installed, !.used = node.installed]
             ELSE [IdleNode EXCEPT !.pc = "loading", !.enabled_mcp_servers = enabled,
                                   !.allServers = allServers,
                                   !.installed = node.installed]
  /\ UNCHANGED <<oauthVars, rt, toolCache, turn, attempts, runs, graph, toolNode, apiVars>>

\* one iteration of the loop over enabled_mcp_servers: a name the user has not
\* registered is passed over; a connection or listing that fails is caught and
\* adds nothing; otherwise the server's tools are pushed with the prefix
DynamicToolNode_server(connected, listing) ==
  /\ node.pc = "loading"
  /\ node.i <= Len(node.enabled_mcp_servers)
  /\ LET qualifiedName == node.enabled_mcp_servers[node.i] IN
     node' = [node EXCEPT
                !.i = @ + 1,
                !.tools = IF qualifiedName \in node.allServers /\ connected
                          THEN @ \o prefixedTools(qualifiedName, listing)
                          ELSE @]
  /\ UNCHANGED <<oauthVars, rt, toolCache, turn, attempts, runs, graph, toolNode, apiVars>>

\* lines 583-585: if (tools.length > 0) this.tools = tools
UpdateTools(installed, tools) == IF Len(tools) > 0 THEN tools ELSE installed

\* the loop is over: this.tools is updated if any tool was loaded, and
\* super.invoke executes the tool calls with this.tools
DynamicToolNode_done ==
  /\ node.pc = "loading"
  /\ node.i > Len(node.enabled_mcp_servers)
  /\ node' = [node EXCEPT !.pc = "done",
                          !.installed = UpdateTools(node.installed, node.tools),
                          !.used = UpdateTools(node.installed, node.tools)]
  /\ UNCHANGED <<oauthVars, rt, toolCache, turn, attempts, runs, graph, toolNode, apiVars>>

DynamicToolNode_serverStep ==
  \E connected \in BOOLEAN, listing \in Listings : DynamicToolNode_server(connected, listing)

NextNode ==
  \/ \E enabled \in EnabledMcpServers, allServers \in SUBSET QualifiedNames, threw \in BOOLEAN :
       DynamicToolNode_invoke(enabled, allServers, threw)
  \/ DynamicToolNode_serverStep
  \/ DynamicToolNode_done

SpecNode == Init /\ [][NextNode]_vars

\* ------------------------------------------------- properties: OAuthManager
\* the row getToken's select finds for the caller, if there is exactly one
RowsFor(p) ==
  SelectRows(oauth_tokens, op[p].userId, toLowerCase(OAuthManager(op[p].provider).provider.name))

\* the stored credential of p's request is expired and has no refresh token
ExpiredWithoutRefresh(p) ==
  /\ Cardinality(RowsFor(p)) = 1
  /\ \A r \in RowsFor(p) :
       /\ r.expires_at # None
       /\ getTime(r.expires_at) < now
       /\ r.refresh_token = 0

\* C1: whenever getToken reads a stored credential whose expires_at is in the
\* past and that has no refresh_token, it returns absent (so hasValidToken is
\* false) and no refresh call is made.
C1_ExpiredWithoutRefreshIsAbsent ==
  [][\A p \in Procs :
       (pc[p] = "get_select" /\ pc'[p] # "get_select" /\ ExpiredWithoutRefresh(p))
         => /\ pc'[p] = "done"
            /\ op'[p].result = None
            /\ ~hasValidToken(op'[p].result)
            /\ ~op'[p].refreshCalled]_vars

\* C2: when the refresh of an expired credential fails (the provider rejects
\* it, or the refreshed credential cannot be persisted), getToken returns
\* absent without raising, and no step of that call has changed the store.
C2_FailedRefreshIsAbsentStoreUntouched ==
  [][\A p \in Procs :
       /\ (pc[p] \in {"get_select", "get_refresh"} /\ pc'[p] # pc[p])
            => oauth_tokens' = oauth_tokens
       /\ ((\E w \in BOOLEAN, e \in ExpiresIns : getToken_refresh(p, FALSE, w, e))
             \/ getToken_store(p, FALSE))
            => /\ pc'[p] = "done"
               /\ op'[p].result = None
               /\ ~op'[p].threw
               /\ oauth_tokens' = oauth_tokens]_vars

\* C2 witness: a getToken call whose refresh was started has returned absent
\* and the expired credential is still the stored row
C2_Witness ==
  \E p \in Procs :
    /\ pc[p] = "done" /\ op[p].kind = "get"
    /\ op[p].refreshCalled /\ ~op[p].wrote /\ op[p].result = None
    /\ \E r \in RowsFor(p) : ShouldRefresh(TokenOfRow(r), now)

\* what getToken hands back after a refresh: the credential the provider just
\* issued, and the one row of (user, provider) holds it
ReturnsRefreshedAndStored(p) ==
  /\ pc'[p] = "done"
  /\ op'[p].result = op[p].refreshed
  /\ op'[p].result # None
  /\ op'[p].result[1].access_token # op[p].token[1].access_token
  /\ SelectRows(oauth_tokens', op[p].userId,
                toLowerCase(OAuthManager(op[p].provider).provider.name))
       = {RowOf(op[p].userId, OAuthManager(op[p].provider).provider, op[p].refreshed[1])}

\* C3 as stated: once the provider's refresh has succeeded for an expired
\* credential with a refresh_token, getToken returns the refreshed credential
\* and the store row of (user, provider) holds it when getToken returns.
C3_RefreshedReturnedAndStored ==
  [][\A p \in Procs :
       (pc[p] = "get_store" /\ pc'[p] # "get_store") => ReturnsRefreshedAndStored(p)]_vars

\* C3 amended: once the provider's refresh has succeeded and the refreshed
\* credential has been persisted, getToken returns the refreshed credential
\* and the store row of (user, provider) holds it when getToken returns.
C3_RefreshedAndPersistedReturned ==
  [][\A p \in Procs : getToken_store(p, TRUE) => ReturnsRefreshedAndStored(p)]_vars

\* C3 witness: a getToken call has refreshed, persisted and returned the
\* credential, and the store row is that credential
C3_Witness ==
  \E p \in Procs :
    /\ pc[p] = "done" /\ op[p].kind = "get"
    /\ op[p].refreshCalled /\ op[p].wrote /\ op[p].result # None
    /\ RowsFor(p) = {RowOf(op[p].userId, OAuthManager(op[p].provider).provider, op[p].result[1])}

\* ------------------------------------------- properties: the callback route
\* C9: the callback sends the exchange request only when the session user
\* equals the user id decoded from state; with no session user or a different
\* one nothing is exchanged and no row is written; and every row the callback
\* writes carries the session user's own id.
C9_ExchangeAndStoreOnlyForSessionUser ==
  [][\A p \in Procs :
       /\ (pc[p] # "cb_exchange" /\ pc'[p] = "cb_exchange")
            => op'[p].sessionUser = Some(op'[p].userId)
       /\ (op'[p].kind = "callback" /\ op'[p].exchanged)
            => op'[p].sessionUser = Some(op'[p].userId)
       /\ (op'[p].kind = "callback" /\ op'[p].sessionUser # Some(op'[p].userId))
            => /\ pc'[p] = "done"
               /\ ~op'[p].exchanged /\ ~op'[p].wrote
               /\ (op[p] # op'[p] => oauth_tokens' = oauth_tokens /\ issued' = issued)
       /\ (pc[p] = "cb_store" /\ pc'[p] # "cb_store")
            => \A r \in oauth_tokens' \ oauth_tokens :
                 op[p].sessionUser # None /\ r.user_id = op[p].sessionUser[1]]_vars

\* C9 witness: one callback stored a credential for its session user, another
\* was turned away because its session user is not the one named in state
C9_Witness ==
  \E p, q \in Procs :
    /\ pc[p] = "done" /\ op[p].kind = "callback" /\ op[p].wrote
    /\ \E r \in oauth_tokens : r.user_id = op[p].sessionUser[1]
    /\ pc[q] = "done" /\ op[q].kind = "callback" /\ op[q].userId # <<>>
    /\ op[q].sessionUser # None /\ op[q].sessionUser[1] # op[q].userId
    /\ ~op[q].exchanged /\ op[q].redirect = "error=oauth_callback_failed"

\* ------------------------------------ properties: the state parameter round trip
\* C10: for a token without ':' and any user id, the URL's state parameter
\* decodes to "<token>:<userId>" and the callback recovers exactly that user id.
C10_StateRoundTrip ==
  /\ rt.phase \in {"issued", "parsed"}
       => Decode(rt.authUrl) = rt.state \o <<":">> \o rt.userId
  /\ rt.phase = "parsed" => rt.recovered = rt.userId

\* ------------------------------------------- properties: tool resolution
\* a resolution that went to the servers (not answered from the cache) is over
Resolved(t) == turn[t].pc = "done" /\ ~turn[t].cacheHit

Known(ids) == {n \in ids : n \in DOMAIN MCP_SERVERS_CONFIG}
Elems(xs) == {xs[i] : i \in 1..Len(xs)}

\* C4: when some servers of a resolution fail to connect, the resolution does
\* not raise and returns exactly the tools of the servers that connected.
C4_PartialFailureKeepsOtherServers ==
  \A t \in Turns :
    Resolved(t) =>
      /\ ~turn[t].threw
      /\ turn[t].tools = ToolsFrom(turn[t].mcpServers, 1, turn[t].failed)

\* C5: a resolution whose key has a completed resolution behind it (an entry
\* in toolCache) returns the stored list at once, with no connection attempt
\* and no change to the cache.
C5_CacheHitMakesNoConnection ==
  [][\A t \in Turns :
       (runs' = runs + 1 /\ turn'[t] # turn[t] /\ turn'[t].cacheKey \in DOMAIN toolCache)
         => /\ turn'[t].pc = "done"
            /\ turn'[t].cacheHit
            /\ turn'[t].tools = toolCache[turn'[t].cacheKey]
            /\ attempts' = attempts
            /\ toolCache' = toolCache]_vars

\* C5 witness: two resolutions of serverA's key have run, the second was a
\* hit that returned serverA's tools, and serverA was connected to once
C5_Witness ==
  \E t \in Turns :
    /\ turn[t].pc = "done" /\ turn[t].cacheHit
    /\ turn[t].enabledServers = <<serverA>>
    /\ turn[t].tools = ToolsOf(serverA)
    /\ runs = 2 /\ attempts[serverA] = 1

\* the two lists hold the same identifiers the same number of times
IsPermutation(xs, ys) ==
  /\ Len(xs) = Len(ys)
  /\ \A n \in ServerIds :
       Cardinality({i \in 1..Len(xs) : xs[i] = n}) = Cardinality({i \in 1..Len(ys) : ys[i] = n})

\* C6: two resolutions whose identifier lists are permutations of each other
\* and whose user is the same have the same cache key; two resolutions with
\* the same identifiers and different users have different keys.
C6_KeyIgnoresOrderNotUser ==
  \A t1, t2 \in Turns :
    (turn[t1].pc # "idle" /\ turn[t2].pc # "idle") =>
      /\ (IsPermutation(turn[t1].enabledServers, turn[t2].enabledServers)
            /\ turn[t1].userId = turn[t2].userId)
           => turn[t1].cacheKey = turn[t2].cacheKey
      /\ (turn[t1].enabledServers = turn[t2].enabledServers
            /\ turn[t1].userId # turn[t2].userId)
           => turn[t1].cacheKey # turn[t2].cacheKey

\* C6 witness: [serverA, gmail] was resolved, and the resolution of
\* [gmail, serverA] for the same user was a hit on its entry
C6_Witness ==
  \E t1, t2 \in Turns :
    /\ Resolved(t1) /\ turn[t1].enabledServers = <<serverA, gmail>>
    /\ turn[t2].pc = "done" /\ turn[t2].cacheHit
    /\ turn[t2].enabledServers = <<gmail, serverA>>
    /\ turn[t1].userId = turn[t2].userId
    /\ turn[t2].tools = turn[t1].tools

\* C7: an identifier that is not in the registry is never connected to and
\* never configured; the resolution does not raise, returns tools of known
\* servers only, and when every connection succeeds returns the tools of all
\* the known servers it was given.
C7_UnknownIdentifierSkipped ==
  /\ \A n \in ServerIds \ DOMAIN MCP_SERVERS_CONFIG : attempts[n] = 0
  /\ \A t \in Turns :
       /\ ~turn[t].threw
       /\ ServerNames(turn[t].mcpServers) \subseteq DOMAIN MCP_SERVERS_CONFIG
       /\ \A i \in 1..Len(turn[t].tools) :
            turn[t].tools[i].serverName \in DOMAIN MCP_SERVERS_CONFIG
       /\ (Resolved(t) /\ turn[t].failed = {}) =>
            /\ ServerNames(turn[t].mcpServers) = Known(Elems(turn[t].enabledServers))
            /\ turn[t].tools = ToolsFrom(turn[t].mcpServers, 1, {})

\* C7 witness: [serverA, doesNotExist] was resolved to serverA's tools
C7_Witness ==
  \E t \in Turns :
    /\ Resolved(t)
    /\ turn[t].enabledServers = <<serverA, doesNotExist>>
    /\ turn[t].tools = ToolsOf(serverA)
    /\ attempts[serverA] = 1

\* C8: no resolution raises; a resolution with no configured server, or whose
\* connections all fail, returns the empty list.
C8_ResolutionNeverThrows ==
  \A t \in Turns :
    /\ ~turn[t].threw
    /\ (Resolved(t) /\ turn[t].failed = ServerNames(turn[t].mcpServers))
         => turn[t].tools = <<>>

\* C8 witness: a resolution over the server with the unregistered OAuth
\* provider and the server whose OAuth token is missing ended with every
\* connection failed and the empty list, and one over unknown identifiers
\* only ended with the empty list
C8_Witness ==
  \E t1, t2 \in Turns :
    /\ Resolved(t1) /\ Elems(turn[t1].enabledServers) = {legacy, gmail}
    /\ oauth_tokens = {}
    /\ turn[t1].failed = {legacy, gmail} /\ turn[t1].tools = <<>>
    /\ Resolved(t2) /\ turn[t2].enabledServers = <<doesNotExist>>
    /\ turn[t2].mcpServers = <<>> /\ turn[t2].tools = <<>>

\* ----------------------------------------- properties: revoke and the store
\* the rows of the table that belong to another user or another provider than p's
OtherRows(table, p) ==
  {r \in table : ~(r.user_id = op[p].userId
                    /\ r.provider = toLowerCase(OAuthManager(op[p].provider).provider.name))}

\* C11: a revoke whose delete is answered succeeds without error whether or
\* not the (user, provider) row exists; afterwards the row is absent and every
\* other row is as before, so revoking an absent credential changes nothing
\* and a second revoke leaves the store as the first one left it.
C11_RevokeIdempotent ==
  [][\A p \in Procs :
       revokeToken(p, TRUE)
         => /\ pc'[p] = "done" /\ ~op'[p].threw /\ op'[p].status = 200
            /\ oauth_tokens' = OtherRows(oauth_tokens, p)
            /\ OtherRows(oauth_tokens', p) = OtherRows(oauth_tokens, p)
            /\ (RowsFor(p) = {} => oauth_tokens' = oauth_tokens)]_vars

\* C11 witness: the same user revoked google twice without ever having had a
\* credential, both revokes succeeded, and another user's row is still stored
C11_Witness ==
  \E p, q \in Procs :
    /\ p # q
    /\ pc[p] = "done" /\ op[p].kind = "revoke" /\ op[p].wrote /\ op[p].status = 200
    /\ pc[q] = "done" /\ op[q].kind = "revoke" /\ op[q].wrote /\ op[q].status = 200
    /\ op[p].userId = op[q].userId /\ op[p].provider = op[q].provider
    /\ RowsFor(p) = {}
    /\ \E r \in oauth_tokens : r.user_id # op[p].userId /\ r.provider = "google"

\* no two rows of the table have the same (user_id, provider)
AtMostOneRowPerPair(table) ==
  \A r1, r2 \in table :
    (r1.user_id = r2.user_id /\ r1.provider = r2.provider) => r1 = r2

\* the credential p's handler is about to persist
Persisting(p) == IF pc[p] = "cb_store" THEN op[p].token[1] ELSE op[p].refreshed[1]

\* C12: in every reachable state the store has at most one row per
\* (user, provider), and a store that is answered (by the callback or by
\* getToken's refresh) leaves for its pair exactly the row of the credential
\* just stored, replacing any row the pair had, and leaves other pairs alone.
C12_OneRowPerUserAndProvider ==
  /\ []AtMostOneRowPerPair(oauth_tokens)
  /\ [][\A p \in Procs :
          (callback_store(p, TRUE) \/ getToken_store(p, TRUE))
            => /\ oauth_tokens' \ OtherRows(oauth_tokens', p)
                    = {RowOf(op[p].userId, OAuthManager(op[p].provider).provider, Persisting(p))}
               /\ OtherRows(oauth_tokens', p) = OtherRows(oauth_tokens, p)]_vars

\* C12 witness: two callbacks stored a credential for the same user one after
\* the other, and the user's single row holds the second credential
C12_Witness ==
  \E p, q \in Procs :
    /\ p # q
    /\ pc[p] = "done" /\ op[p].kind = "callback" /\ op[p].wrote
    /\ pc[q] = "done" /\ op[q].kind = "callback" /\ op[q].wrote
    /\ op[p].userId = op[q].userId
    /\ issued = 2
    /\ Cardinality(RowsFor(p)) = 1
    /\ \A r \in RowsFor(p) : r.access_token = 2

\* C13: a successful refresh returns a credential whose refresh_token is the
\* one in the provider's response when the response has one and the one that
\* was sent otherwise, getToken persists that refresh_token, and a credential
\* that had a refresh_token still has one after the refresh.
C13_RefreshKeepsRefreshToken ==
  [][\A p \in Procs :
       /\ \A w \in BOOLEAN, e \in ExpiresIns :
            getToken_refresh(p, TRUE, w, e)
              => /\ op'[p].refreshed # None
                 /\ op'[p].refreshed[1].refresh_token
                      = (IF w THEN issued' ELSE op[p].token[1].refresh_token)
                 /\ op'[p].refreshed[1].refresh_token # 0
       /\ getToken_store(p, TRUE)
            => /\ op[p].token[1].refresh_token # 0
               /\ \A r \in oauth_tokens' \ OtherRows(oauth_tokens', p) :
                    /\ r.refresh_token = op[p].refreshed[1].refresh_token
                    /\ r.refresh_token # 0]_vars

\* C13 witness: getToken refreshed and persisted a credential whose response
\* carried no refresh_token: the stored row has the new access token and the
\* refresh token that was sent
C13_Witness ==
  \E p \in Procs :
    /\ pc[p] = "done" /\ op[p].kind = "get" /\ op[p].refreshCalled /\ op[p].wrote
    /\ op[p].result # None
    /\ op[p].result[1].refresh_token # 0
    /\ op[p].result[1].refresh_token < op[p].result[1].access_token
    /\ \E r \in RowsFor(p) : r.refresh_token = op[p].result[1].refresh_token

\* ------------------------------------------ properties: callback outcomes
\* the error reasons the callback redirects with
ErrorReasons ==
  {"error=oauth_error", "error=missing_oauth_params", "error=oauth_callback_failed"}

C15_UnknownProviderIsClientError ==
  \A p \in Procs :
    (op[p].kind \in {"initiate", "get", "revoke"}
       /\ op[p].sessionUser # None
       /\ op[p].provider # ""
       /\ op[p].provider \notin DOMAIN OAUTH_PROVIDERS)
      => /\ pc[p] = "done"
         /\ op[p].threw
         /\ op[p].status = 400
         /\ ~op[p].wrote /\ ~op[p].refreshCalled
\* what Get returns to a resolution that starts now for the placeholder's
\* provider and the caller's user (absent when no user is given or the
\* provider is unknown)
GetForPlaceholder(userId, providerName, env) ==
  IF userId = <<>> \/ OAuthManager(providerName).threw
  THEN None
  ELSE getTokenSync(oauth_tokens, issued, userId, providerName, now, env).result

\* C16: in the configuration a resolution builds, a header "OAUTH:<provider>"
\* is "Bearer <token>" exactly when Get returned a credential for that provider
\* and the caller's user; otherwise the placeholder is left as it is and the
\* server stays in the configuration; every registered server that was enabled
\* is configured, and a header without the placeholder is passed through
C16_PlaceholderReplacedIffCredential ==
  [][\A t \in Turns, env \in RefreshEnvs :
       initializeMCPClient_config(t, env) /\ turn'[t].pc = "connecting" =>
         LET cfg == turn'[t].mcpServers IN
         /\ ServerNames(cfg) =
              {id \in Elems(turn[t].enabledServers) : ConfigLookup(id) # None}
         /\ \A i \in 1..Len(cfg) :
              LET reg == ConfigLookup(cfg[i].name)[1].headers IN
              /\ Len(cfg[i].headers) = Len(reg)
              /\ \A j \in 1..Len(reg) :
                   LET got == GetForPlaceholder(turn[t].userId, reg[j].provider, env) IN
                   cfg[i].headers[j] =
                     IF reg[j].scheme = "OAUTH:" /\ got # None
                     THEN Header("Bearer ", "", got[1].access_token)
                     ELSE reg[j]]_vars

\* a configuration in which gmail's placeholder was replaced, its plain header
\* passed through, and legacy's placeholder (no credential) left in place
C16_Witness ==
  \E t \in Turns :
    /\ turn[t].pc = "connecting"
    /\ \E i, k \in 1..Len(turn[t].mcpServers) :
         /\ turn[t].mcpServers[i].name = gmail
         /\ turn[t].mcpServers[i].headers[1].scheme = "Bearer "
         /\ turn[t].mcpServers[i].headers[2] = Header("plain", "", 0)
         /\ turn[t].mcpServers[k].name = legacy
         /\ turn[t].mcpServers[k].headers = <<Header("OAUTH:", "myspace", 0)>>

\* C17: every tool the node has loaded is named
\* "<server identifier>__<original tool name>" and keeps its original name and
\* its server, and no two loaded tools of different servers have the same
\* name, whatever the identifiers and tool names are
C17_PrefixedNamesDistinctAcrossServers ==
  /\ \A k \in 1..Len(node.tools) :
       node.tools[k].name =
         node.tools[k].serverName \o <<"_", "_">> \o node.tools[k].originalName
  /\ \A k, m \in 1..Len(node.tools) :
       node.tools[k].serverName # node.tools[m].serverName =>
         node.tools[k].name # node.tools[m].name

\* the naming half of C17 alone
C17_NamedByPrefix ==
  \A k \in 1..Len(node.tools) :
    /\ node.tools[k].name =
         node.tools[k].serverName \o <<"_", "_">> \o node.tools[k].originalName
    /\ node.tools[k].serverName \in Elems(node.enabled_mcp_servers)
    /\ node.tools[k].originalName \in ToolNames

\* a turn whose resolution is under way
Resolving(t) == turn[t].pc \in {"config", "connecting"}

\* the step is the write of turn t: its resolution has just settled without
\* throwing, and the entry under its key is now exactly the list it resolved
WritesOwnResult(t) ==
  /\ Resolving(t)
  /\ turn'[t].pc = "done"
  /\ ~turn'[t].threw
  /\ turn[t].cacheKey \in DOMAIN toolCache'
  /\ toolCache'[turn[t].cacheKey] = turn'[t].tools
  /\ \A key \in DOMAIN toolCache' \ {turn[t].cacheKey} :
       key \in DOMAIN toolCache /\ toolCache'[key] = toolCache[key]

\* a resolution under way can take its next step, whatever the others do:
\* building the configuration is conditioned on nothing but the turn's own
\* position and yields a result in every state; the connections can settle
CanProceed(t) ==
  /\ turn[t].pc = "config" =>
       \E env \in RefreshEnvs :
         getMcpClientConfig(turn[t].enabledServers, turn[t].userId,
                            oauth_tokens, issued, now, env).threw \in BOOLEAN
  /\ turn[t].pc = "connecting" => ENABLED initializeMCPClient_connectStep(t)

\* C18: resolutions racing on a miss never wait for each other (a resolution
\* under way can always take its next step), and the cache changes only by the
\* write of a resolution that has just settled, which puts the writer's own
\* complete list under its key, replacing what another resolution wrote, and
\* leaves every other entry as it was
C18_LastWriterWinsWholeResult ==
  /\ [](\A t \in Turns : CanProceed(t))
  /\ [][/\ toolCache' # toolCache => \E t \in Turns : WritesOwnResult(t)
        /\ \A t \in Turns :
             Resolving(t) /\ turn'[t].pc = "done" /\ ~turn'[t].threw
               /\ turn[t].entry = "callModel"
               => WritesOwnResult(t)]_vars

\* two turns missed on the same key, both resolved remotely with different
\* results, and the cache holds the whole list of one of them
C18_Witness ==
  /\ turn["t1"].pc = "done" /\ turn["t2"].pc = "done"
  /\ turn["t1"].entry = "callModel" /\ turn["t2"].entry = "callModel"
  /\ ~turn["t1"].cacheHit /\ ~turn["t2"].cacheHit
  /\ turn["t1"].cacheKey = turn["t2"].cacheKey
  /\ turn["t1"].tools # <<>> /\ turn["t2"].tools # <<>>
  /\ turn["t1"].tools # turn["t2"].tools
  /\ toolCache[turn["t1"].cacheKey] = turn["t2"].tools

\* C19: no step removes an entry of the tool cache; a step that changes the
\* credential store (a revoke, a store) leaves the cache as it is; and a
\* resolution whose key is cached, also after the user's credential has been
\* revoked, returns the cached list without a lookup in the credential store,
\* a refresh or a connection
C19_CacheNeverInvalidated ==
  [][/\ DOMAIN toolCache \subseteq DOMAIN toolCache'
     /\ (oauth_tokens' # oauth_tokens \/ pc' # pc) => toolCache' = toolCache
     /\ \A enabled \in CacheLists :
          /\ callModel_lookup("t1", enabled, <<"u">>)
          /\ cacheKey(FilterMemory(enabled), <<"u">>) \in DOMAIN toolCache
          => /\ turn'["t1"].pc = "done"
             /\ turn'["t1"].tools = toolCache[cacheKey(FilterMemory(enabled), <<"u">>)]
             /\ attempts' = attempts
             /\ oauth_tokens' = oauth_tokens
             /\ issued' = issued]_vars

\* gmail's tools were resolved with u's credential and cached, the credential
\* was revoked, and a later turn of u got the cached tools
C19_Witness ==
  /\ op["p1"].kind = "revoke" /\ op["p1"].wrote /\ op["p1"].userId = <<"u">>
  /\ SelectRows(oauth_tokens, <<"u">>, "google") = {}
  /\ turn["t1"].pc = "done" /\ turn["t1"].cacheHit
  /\ turn["t1"].userId = <<"u">>
  /\ turn["t1"].enabledServers = <<gmail>>
  /\ turn["t1"].tools = ToolsOf(gmail)
  /\ runs = 2

\* the (user, provider) pairs that have a credential row
Pairs(table) == {<<r.user_id, r.provider>> : r \in table}

\* the step is an initiate request answered by handler p
InitiateStep(p) == op'[p].kind = "initiate" /\ op'[p] # op[p]

\* C20: issuing an authorization URL writes nothing (an initiate request,
\* whatever it answers, leaves the credential store as it is, so an abandoned
\* flow leaves an absent credential absent and an active one active), and a
\* pair that has no credential gets one only by the store of a callback whose
\* exchange succeeded
C20_InitiateWritesNothing ==
  [][/\ \A p \in Procs : InitiateStep(p) => oauth_tokens' = oauth_tokens
     /\ Pairs(oauth_tokens') \ Pairs(oauth_tokens) # {} =>
          \E p \in Procs :
            /\ pc[p] = "cb_store" /\ op[p].exchanged
            /\ op'[p].redirect = "oauth_success=google"
            /\ Pairs(oauth_tokens') \ Pairs(oauth_tokens) = {<<op[p].userId, "google">>}]_vars

\* the frame half of C20 alone: an initiate request leaves the store as it is
C20_InitiateLeavesStore ==
  [][\A p \in Procs : InitiateStep(p) => oauth_tokens' = oauth_tokens]_vars

\* the rows of p's pair after the step
RowsForAfter(p) ==
  SelectRows(oauth_tokens', op[p].userId,
             toLowerCase(OAuthManager(op[p].provider).provider.name))

\* C21: once a revoke has removed the credential of a pair, the persist of a
\* Get that was refreshing it leaves no row for the pair, and a Get that reads
\* the store while the pair has no row returns absent
C21_RevokedStaysAbsent ==
  [][\A p \in Procs :
       /\ (pc[p] = "get_store" /\ pc'[p] = "done" /\ RowsFor(p) = {})
            => RowsForAfter(p) = {}
       /\ (pc[p] = "get_select" /\ pc'[p] # "get_select" /\ RowsFor(p) = {})
            => pc'[p] = "done" /\ op'[p].result = None]_vars

\* the second half of C21 alone: a Get that finds no row returns absent
C21_GetAfterRevokeAbsent ==
  [][\A p \in Procs :
       (pc[p] = "get_select" /\ pc'[p] # "get_select" /\ RowsFor(p) = {})
         => pc'[p] = "done" /\ op'[p].result = None]_vars

\* C22: whenever the tools node has executed the tool calls of a run whose
\* configuration differs from the other runs', it did so with the list that
\* run's own agent node resolved
C22_ToolsNodeUsesOwnList ==
  \A t \in Turns :
    /\ graph[t].executed
    /\ \A u \in Turns \ {t} :
         <<graph[u].enabled_mcp_servers, graph[u].userId>>
           # <<graph[t].enabled_mcp_servers, graph[t].userId>>
    => graph[t].used = graph[t].tools

\* C23: two resolutions that differ in the set of enabled identifiers or in
\* the user never have the same cache key
C23_CacheKeyInjective ==
  \A t, u \in Turns :
    /\ turn[t].entry = "callModel" /\ turn[u].entry = "callModel"
    /\ turn[t].cacheKey = turn[u].cacheKey
    => /\ Elems(turn[t].enabledServers) = Elems(turn[u].enabledServers)
       /\ turn[t].userId = turn[u].userId

\* what C23 is to prevent: a turn gets from the cache a list that was resolved
\* for another user or another set of servers
C23_HitOnlyForSameUserAndSet ==
  \A t, u \in Turns :
    /\ turn[t].entry = "callModel" /\ turn[t].cacheHit
    /\ turn[u].entry = "callModel" /\ ~turn[u].cacheHit /\ turn[u].pc = "done"
    /\ turn[t].cacheKey = turn[u].cacheKey
    => /\ Elems(turn[t].enabledServers) = Elems(turn[u].enabledServers)
       /\ turn[t].userId = turn[u].userId

\* C24: a turn started through the run endpoint looks credentials up and keys
\* the cache under the id of the authenticated sender, and the header built
\* for gmail carries the sender's stored google credential whenever Get
\* returns one for the sender
C24_TurnRunsAsSender ==
  [][\A t \in Turns, env \in RefreshEnvs :
       /\ graph[t].status = 200
       /\ initializeMCPClient_config(t, env)
       /\ turn'[t].pc = "connecting"
       => /\ turn[t].userId = graph[t].sender
          /\ \A i \in 1..Len(turn'[t].mcpServers) :
               turn'[t].mcpServers[i].name = gmail =>
                 LET got == GetForPlaceholder(graph[t].sender, "google", env) IN
                 turn'[t].mcpServers[i].headers[1] =
                   IF got # None
                   THEN Header("Bearer ", "", got[1].access_token)
                   ELSE Header("OAUTH:", "google", 0)]_vars

\* C25: a resolution whose connections failed caches the empty list under
\* its key, and a later turn with that key gets the empty list from the cache
\* at once, with no connection attempt
C25_FailedResolutionIsCached ==
  [][/\ \A t \in Turns :
          /\ turn[t].pc = "connecting" /\ turn[t].entry = "callModel"
          /\ turn'[t].pc = "done" /\ turn'[t].failed # {} /\ turn'[t].tools = <<>>
          => /\ turn[t].cacheKey \in DOMAIN toolCache'
             /\ toolCache'[turn[t].cacheKey] = <<>>
     /\ runs' # runs =>
          \A t \in Turns :
            /\ turn'[t] # turn[t]
            /\ turn'[t].cacheKey \in DOMAIN toolCache
            /\ toolCache[turn'[t].cacheKey] = <<>>
            => /\ turn'[t].pc = "done" /\ turn'[t].cacheHit /\ turn'[t].tools = <<>>
               /\ attempts' = attempts /\ toolCache' = toolCache]_vars

\* serverA's connection failed once, the empty list was cached, and a later
\* turn with the same key was served the empty list without a second attempt
C25_Witness ==
  \E t, u \in Turns :
    /\ t # u
    /\ turn[u].pc = "done" /\ ~turn[u].cacheHit /\ turn[u].failed = {serverA}
    /\ turn[u].tools = <<>>
    /\ turn[t].pc = "done" /\ turn[t].cacheHit /\ turn[t].tools = <<>>
    /\ turn[t].enabledServers = <<serverA>>
    /\ turn[t].cacheKey = turn[u].cacheKey
    /\ attempts[serverA] = 1

\* C26: a callback exchanges a code only for a state whose anti-forgery token
\* the initiate endpoint issued earlier; so when the callback is the first
\* request ever received (no token has been issued), nothing is exchanged and
\* nothing is stored
C26_ExchangeOnlyForIssuedState ==
  \A p \in Procs :
    calls = 1 /\ op[p].kind = "callback" =>
      ~op[p].exchanged /\ ~op[p].wrote /\ oauth_tokens = {}

\* C27: when an invoke of the tool node has finished, the list it executed
\* the tool calls with is the list loaded during that invoke (so an invoke
\* that loaded nothing executes with no tool)
C27_InvokeUsesToolsItLoaded ==
  node.pc = "done" => node.used = node.tools

\* C28: a run moves only along start -> retrieveKb -> writeMemory, then to
\* agent directly (only when memory was updated) or to skipMemory and from
\* there to agent; from agent to tools exactly when the answer carries a tool
\* call, otherwise to the end; from tools back to agent; it ends from agent only
C28_GraphOrder ==
  [][\A t \in Turns :
       /\ graph'[t].at # graph[t].at =>
            \/ graph[t].at \in {"none", "__end__"} /\ graph'[t].at = "retrieveKb"
            \/ graph[t].at = "retrieveKb" /\ graph'[t].at = "writeMemory"
            \/ graph[t].at = "writeMemory" /\ graph'[t].at \in {"agent", "skipMemory"}
            \/ graph[t].at = "skipMemory" /\ graph'[t].at = "agent"
            \/ graph[t].at = "agent" /\ graph'[t].toolCalls /\ graph'[t].at = "tools"
            \/ graph[t].at = "agent" /\ ~graph'[t].toolCalls /\ graph'[t].at = "__end__"
            \/ graph[t].at = "tools" /\ graph'[t].at = "agent"
       /\ \A has_memory_updates, kept \in BOOLEAN :
            writeMemory(t, has_memory_updates, kept) /\ graph'[t].at = "agent"
              => has_memory_updates
       /\ (graph[t].at = "agent" /\ graph'[t] # graph[t]) => graph'[t].at # "agent"
       /\ (graph[t].at = "tools" /\ graph'[t] # graph[t]) => graph'[t].at = "agent"]_vars

\* one run went agent -> tools -> agent -> end while the other never started
C28_Witness ==
  \E t \in Turns :
    /\ graph[t].at = "__end__" /\ graph[t].executed = FALSE /\ graph[t].used # <<>>
    /\ runs = 2
    /\ \A u \in Turns \ {t} : graph[u].at = "none"

\* the thread of a finished handler's request, as it was at the start
RequestedThread(p) == CHOOSE th \in Threads0 : th.id = reply[p].threadId

CountOf(xs, x) == Cardinality({k \in 1..Len(xs) : xs[k] = x})

\* what holds of the response: it is closed at most once and, unless the
\* client has gone away, eventually closed; only events with content are
\* forwarded; no error event is written without a throw
StreamClosedUnlessCancelled ==
  /\ [](\A t \in Turns :
          /\ stream[t].closes <= 1
          /\ stream[t].pc = "closed" <=> stream[t].closes = 1
          /\ CountOf(stream[t].written, "data") <= stream[t].withContent
          /\ ~stream[t].cancelled =>
               CountOf(stream[t].written, "data") = stream[t].withContent
          /\ ~stream[t].threw => CountOf(stream[t].written, "error") = 0
          /\ (stream[t].pc = "closed" /\ stream[t].threw) =>
               /\ CountOf(stream[t].written, "error") = 1
               /\ stream[t].written[Len(stream[t].written)] = "error")
  /\ \A t \in Turns :
       (stream[t].pc = "streaming") ~> (stream[t].pc = "closed" \/ stream[t].cancelled)

\* C30: for every accepted run request the response stream is eventually
\* closed exactly once, whether the event stream completes or throws; when
\* it has thrown, one error event has been written by the time the handler's
\* finally has run; events without content are never forwarded
C30_StreamClosedOnce ==
  /\ [](\A t \in Turns :
          /\ stream[t].closes <= 1
          /\ CountOf(stream[t].written, "data") <= stream[t].withContent
          /\ (stream[t].pc \in {"closed", "aborted"} /\ stream[t].threw) =>
               CountOf(stream[t].written, "error") = 1
          /\ stream[t].pc \in {"closed", "aborted"} => stream[t].closes = 1)
  /\ \A t \in Turns : (stream[t].pc = "streaming") ~> (stream[t].closes = 1)

====
